---- MODULE Spec2Model ----
(***************************************************************************)
(* A model of holaplex/hub-core.                                           *)
(*                                                                         *)
(* Consumer::consume (crates/core/src/consumer.rs) is modelled as one      *)
(* driver process (the select loop) and one process per spawned handler    *)
(* task.  Every await point of the code is a value of a program counter;   *)
(* the code between two await points is one action.  Durations are not     *)
(* modelled: a sleep is a state that the matching wake-up action leaves.   *)
(* A backon::ExponentialBackoff is modelled by the number of delays it     *)
(* has handed out so far (next() yields a delay while that number is       *)
(* below max_times, and None from then on).                                *)
(*                                                                         *)
(* Producer::send (crates/core/src/producer.rs) is modelled as one process *)
(* per call of send on clones of one Producer; the two atomic cells of     *)
(* Shared are variables, and every access to them is one action.  The      *)
(* wall clock is an input: each send reads an arbitrary instant.           *)
(*                                                                         *)
(* The pure functions of the library (MessageGroup::from_message of the    *)
(* test crate, Triage::severity, and parse_fields of derive(Triage)) are   *)
(* operators; a behaviour of LibSpec is one call of one of them on an      *)
(* input drawn from a bounded set.                                         *)
(***************************************************************************)
EXTENDS Integers, Naturals, Sequences, FiniteSets, TLC

\* ---------------------------------------------------------------- bounds
\* Number of records the stream may deliver decoded (one task each).
MaxRecords == 2

\* Number of calls of Producer::send (sequential or concurrent).
MaxSends == 2

\* Largest partition count the broker metadata reports.
MaxPartitions == 2

\* ------------------------------------------------------ program constants
\* ExponentialBuilder::default().with_jitter().with_max_times(5)
OuterMaxTimesOffByOne == 5 - 1
OuterMaxTimes == 5

Records == 1..MaxRecords

\* triage.rs: enum Severity
Severity == {"Transient", "Permanent", "Fatal"}

\* handler_backoff(ExponentialBuilder::default()): the max_times of the builder
\* the caller's closure returns; the closure may lower it to 0 (no retry).
HandlerMaxTimes == {0, 1, 2}

\* What one handler invocation can resolve to: Ok(()) or Err(e), by severity.
HandlerResults == {"Ok"} \cup Severity

\* producer.rs: const INTERVAL: i64 = 5 * 60 (seconds)
INTERVAL == 5 * 60

\* i64::MIN, the initial last_partition_check.  The model's integers are
\* 32 bits wide, so it is represented by the least of them; a clock reading
\* is a Unix time >= 0, so now - INTERVAL never wraps and only the order of
\* the value relative to now - INTERVAL matters.
I64_MIN == -2147483647

\* i32::MAX, the largest partition index try_into::<i32>() accepts.
I32_MAX == 2147483647

Sends == 1..MaxSends

\* Option::None, and a local of send that has not been assigned yet.
None == -1

\* chrono::Local::now().timestamp(): the wall-clock readings a send may get.
\* The wall clock is not monotonic, so readings are not ordered by the order
\* of the sends.
Instants == {0, 300, 301, 602}

\* topic.partitions().len(): the counts a successful metadata query reports
\* (0 for a topic the broker reports without partitions).
PartitionCounts == 0..MaxPartitions

VARIABLES
    driver,             \* where consume() is: connecting, recv (at the select),
                        \*   sleep_err, sleep_hup, abort, abort_internal
    stream,             \* the record stream: none, open, ended
    backoff,            \* delays taken from the outer backoff sequence
    tasks,              \* records whose JoinHandle is in the FuturesUnordered
    spawned,            \* number of records decoded and spawned so far
    task_pc,            \* per record: none, ready, running, sleeping, grace,
                        \*   done, panicked
    task_backoff,       \* per record: delays taken from the inner sequence
    calls,              \* per record: handler invocations started
    hist,               \* per record: results of the finished invocations
    handler_max_times,  \* max_times of the caller's handler_backoff builder
    fails,              \* stream-level failures since the last decoded record
    aborted,            \* no, or the closure that ran std::process::abort()
    partition_count,    \* Shared::partition_count
    last_partition_check, \* Shared::last_partition_check
    send_pc,            \* per send: idle, gate, fetch, load, pick, write,
                        \*   done, panicked
    now,                \* per send: its clock reading
    claimed,            \* per send: fetch_update returned Ok (refresh claimed)
    fetched,            \* per send: none, ok, err (outcome of its metadata query)
    parts,              \* per send: the partition count it obtained, or None
    part,               \* per send: the partition index it chose, or None
    result,             \* per send: none, Ok, Err (what send returned)
    writes,             \* per send: broker writes it has started
    call,               \* the library function that was called, or none
    msg,                \* from_message: the record it was given
    decoded,            \* from_message: what it returned
    err,                \* severity: the error it was called on
    classified,         \* severity: what it returned
    def,                \* derive(Triage): the variant or struct definition
    derived,            \* derive(Triage): the parse_fields result
    assets_cdn,         \* AssetProxy::assets_cdn
    proxy_calls,        \* calls of proxy_ipfs_image made so far
    proxy_arg,          \* the (url, size) of the last call
    proxy_ret,          \* what the last call returned
    new_pc,             \* per build: where Producer::new is: admin,
                        \*   create_topics, producer, returned
    new_topic,          \* per build: none, or the per-topic result of
                        \*   create_topics
    new_ret,            \* per build: none, Ok, or the context of the error
    ded_pc,             \* per deduction: where submit_pending_deduction is:
                        \*   idle, lock, send, returned
    ded_arg,            \* per deduction: its item, blockchain and balance
    ded_sent,           \* per deduction: events handed to Producer::send
    ded_ret,            \* per deduction: none, or what the call returned
    sync_pc,            \* where sync_schemas is: idle, fetching, returned
    lock_disk,          \* the lockfile on disk: per schema, its entry
    lock_map,           \* sync_schemas: the lock map read from the lockfile
    new_lock_map,       \* sync_schemas: the map behind the RwLock
    fetch_res,          \* per schema: none, or how its fetch_schema ended
    sync_ret            \* none, or what sync_schemas returned

prodVars == <<partition_count, last_partition_check, send_pc, now, claimed,
              fetched, parts, part, result, writes>>

libVars == <<call, msg, decoded, err, classified, def, derived>>

consVars == <<driver, stream, backoff, tasks, spawned, task_pc, task_backoff,
              calls, hist, handler_max_times, fails, aborted>>

assetVars == <<assets_cdn, proxy_calls, proxy_arg, proxy_ret>>

buildVars == <<new_pc, new_topic, new_ret>>

creditVars == <<ded_pc, ded_arg, ded_sent, ded_ret>>

syncVars == <<sync_pc, lock_disk, lock_map, new_lock_map, fetch_res, sync_ret>>

extVars == <<assetVars, buildVars, creditVars, syncVars>>

vars == <<driver, stream, backoff, tasks, spawned, task_pc, task_backoff,
          calls, hist, handler_max_times, fails, aborted, prodVars,
          libVars, extVars>>

driverVars == <<driver, stream, backoff, tasks, spawned, fails>>
taskVars == <<task_pc, task_backoff, calls, hist>>

TypeOK ==
    /\ driver \in {"connecting", "recv", "sleep_err", "sleep_hup", "abort",
                   "abort_internal", "returned"}
    /\ stream \in {"none", "open", "ended"}
    /\ backoff \in 0..OuterMaxTimes
    /\ tasks \subseteq Records
    /\ spawned \in 0..MaxRecords
    /\ task_pc \in [Records -> {"none", "ready", "running", "sleeping",
                                "grace", "done", "panicked"}]
    /\ task_backoff \in [Records -> Nat]
    /\ calls \in [Records -> Nat]
    /\ hist \in [Records -> Seq(HandlerResults)]
    /\ handler_max_times \in HandlerMaxTimes
    /\ fails \in Nat
    /\ aborted \in {"no", "abort", "abort_internal"}
    /\ partition_count \in PartitionCounts \cup {1}
    /\ last_partition_check \in Instants \cup {I64_MIN}
    /\ send_pc \in [Sends -> {"idle", "gate", "fetch", "load", "pick", "write",
                              "done", "panicked"}]
    /\ now \in [Sends -> Instants \cup {None}]
    /\ claimed \in [Sends -> BOOLEAN]
    /\ fetched \in [Sends -> {"none", "ok", "err"}]
    /\ parts \in [Sends -> PartitionCounts \cup {1, None}]
    /\ part \in [Sends -> Nat \cup {None}]
    /\ result \in [Sends -> {"none", "Ok", "Err"}]
    /\ writes \in [Sends -> Nat]
    /\ call \in {"none", "from_message", "severity", "derive"}
    /\ decoded \in {"none", "Ok", "MissingKey", "MissingPayload", "Protobuf",
                    "BadTopic"}
    /\ classified \in Severity \cup {"none"}
    /\ derived.severity \in Severity \cup {"none", "delegate"}

\* ------------------------------------------------------------- backoff
\* ExponentialBuilder::build(): a sequence that has handed out no delay.
Build == 0

\* backoff.next() is Some(delay): the sequence still has a delay left.
HasNextMut(b, max_times) == b <= max_times
HasNext(b, max_times) == b < max_times

\* The sequence after a next() that returned Some.
AdvanceStuck(b) == b
Advance(b) == b + 1

\* ------------------------------------------------------------- producer
\* impl Default for Shared: what Producer::new puts in the Arc.
SharedDefaultZero == [partition_count |-> 1, last_partition_check |-> 0]
SharedDefault == [partition_count |-> 1, last_partition_check |-> I64_MIN]

\* ------------------------------------------------------------- library
\* No library function has been called.
LibInit ==
    /\ call = "none"
    /\ msg = [topic |-> "", key |-> "absent", payload |-> "absent"]
    /\ decoded = "none"
    /\ err = [ty |-> "none"]
    /\ classified = "none"
    /\ def = [attrs |-> <<>>, fields |-> <<>>]
    /\ derived = [severity |-> "none", field |-> None, diag |-> <<>>]

\* ------------------------------------------------------------- AssetProxy
\* Url::parse(cdn) of a CDN address without path and query: the path
\* segments and the query pairs of the URL.
CdnBase == [path |-> <<>>, query |-> <<>>]

\* Option::None for a URL, and a call that has not been made.
NoUrl == [domain |-> <<>>, segments |-> <<>>]

\* AssetProxy::new has returned and proxy_ipfs_image has not been called.
AssetInit ==
    /\ assets_cdn = CdnBase
    /\ proxy_calls = 0
    /\ proxy_arg = [url |-> NoUrl, size |-> "None"]
    /\ proxy_ret = [ty |-> "None", url |-> CdnBase]

\* ------------------------------------------------------------- Producer::new
\* Number of calls of Config::build (each builds one Producer).
MaxBuilds == 2

Builds == 1..MaxBuilds

\* Config::build has been called and Producer::new has not run yet.
BuildInit ==
    /\ new_pc = [b \in Builds |-> "admin"]
    /\ new_topic = [b \in Builds |-> "none"]
    /\ new_ret = [b \in Builds |-> "none"]

\* ------------------------------------------------------------- CreditsClient
\* Number of calls of submit_pending_deduction on one CreditsClient.
MaxDeductions == 2

Deductions == 1..MaxDeductions

\* No call of submit_pending_deduction has started.
CreditsInit ==
    /\ ded_pc = [d \in Deductions |-> "idle"]
    /\ ded_arg = [d \in Deductions |->
                    [item |-> "none", blockchain |-> "none", balance |-> 0]]
    /\ ded_sent = [d \in Deductions |-> 0]
    /\ ded_ret = [d \in Deductions |-> "none"]

\* ------------------------------------------------------------- sync_schemas
\* Number of schemas in the TOML config of one run.
MaxSchemas == 2

\* The schemas of the config, by subject.
Schemas == 1..MaxSchemas

\* No entry for a subject in a lock map.
NoLock == [version |-> 0, sha512 |-> "none"]

\* sync_schemas has not been called; no lockfile exists.
SyncInit ==
    /\ sync_pc = "idle"
    /\ lock_disk = [s \in Schemas |-> NoLock]
    /\ lock_map = [s \in Schemas |-> NoLock]
    /\ new_lock_map = [s \in Schemas |-> NoLock]
    /\ fetch_res = [s \in Schemas |-> "none"]
    /\ sync_ret = "none"

\* ------------------------------------------------------------- Init
\* consume() has been called: handler_backoff(ExponentialBuilder::default())
\* is the caller's choice, the outer sequence is built, nothing is running.
\* Producer::new has returned: the shared cells hold their defaults and no
\* send has started.
Init ==
    /\ driver = "connecting"
    /\ stream = "none"
    /\ backoff = Build
    /\ tasks = {}
    /\ spawned = 0
    /\ task_pc = [r \in Records |-> "none"]
    /\ task_backoff = [r \in Records |-> Build]
    /\ calls = [r \in Records |-> 0]
    /\ hist = [r \in Records |-> <<>>]
    /\ handler_max_times \in HandlerMaxTimes
    /\ fails = 0
    /\ aborted = "no"
    /\ partition_count = SharedDefault.partition_count
    /\ last_partition_check = SharedDefault.last_partition_check
    /\ send_pc = [s \in Sends |-> "idle"]
    /\ now = [s \in Sends |-> None]
    /\ claimed = [s \in Sends |-> FALSE]
    /\ fetched = [s \in Sends |-> "none"]
    /\ parts = [s \in Sends |-> None]
    /\ part = [s \in Sends |-> None]
    /\ result = [s \in Sends |-> "none"]
    /\ writes = [s \in Sends |-> 0]
    /\ LibInit
    /\ AssetInit
    /\ BuildInit
    /\ CreditsInit
    /\ SyncInit

\* ------------------------------------------------------------- driver
\* First iteration of the reconnect loop: the stream is opened, the task set
\* is created, and the driver reaches the select.
Connect ==
    /\ aborted = "no"
    /\ driver = "connecting"
    /\ driver' = "recv"
    /\ stream' = "open"
    /\ tasks' = {}
    /\ UNCHANGED <<backoff, spawned, fails, taskVars, handler_max_times, aborted,
                   prodVars, libVars, extVars>>

\* Event::Event(Some(Ok(evt))): reset the outer sequence, spawn the task.
RecvOkNoReset ==
    /\ aborted = "no"
    /\ driver = "recv"
    /\ spawned < MaxRecords
    /\ LET r == spawned + 1 IN
        /\ spawned' = r
        /\ task_pc' = [task_pc EXCEPT ![r] = "ready"]
        /\ task_backoff' = [task_backoff EXCEPT ![r] = Build]
        /\ tasks' = tasks \cup {r}
    /\ fails' = 0
    /\ UNCHANGED <<driver, stream, backoff, calls, hist, handler_max_times, aborted,
                   prodVars, libVars, extVars>>

RecvOkWaitsForTasks ==
    /\ aborted = "no"
    /\ driver = "recv"
    /\ spawned < MaxRecords
    /\ \A q \in tasks : task_pc[q] \in {"done", "panicked"}
    /\ backoff' = Build
    /\ LET r == spawned + 1 IN
        /\ spawned' = r
        /\ task_pc' = [task_pc EXCEPT ![r] = "ready"]
        /\ task_backoff' = [task_backoff EXCEPT ![r] = Build]
        /\ tasks' = tasks \cup {r}
    /\ fails' = 0
    /\ UNCHANGED <<driver, stream, calls, hist, handler_max_times, aborted,
                   prodVars, libVars, extVars>>

RecvOkSharedInner ==
    /\ aborted = "no"
    /\ driver = "recv"
    /\ spawned < MaxRecords
    /\ backoff' = Build
    /\ LET r == spawned + 1 IN
        /\ spawned' = r
        /\ task_pc' = [task_pc EXCEPT ![r] = "ready"]
        /\ task_backoff' = [task_backoff EXCEPT
                               ![r] = IF r > 1 THEN task_backoff[r - 1] ELSE Build]
        /\ tasks' = tasks \cup {r}
    /\ fails' = 0
    /\ UNCHANGED <<driver, stream, calls, hist, handler_max_times, aborted,
                   prodVars, libVars, extVars>>

RecvOk ==
    /\ aborted = "no"
    /\ driver = "recv"
    /\ spawned < MaxRecords
    /\ backoff' = Build
    /\ LET r == spawned + 1 IN
        /\ spawned' = r
        /\ task_pc' = [task_pc EXCEPT ![r] = "ready"]
        /\ task_backoff' = [task_backoff EXCEPT ![r] = Build]
        /\ tasks' = tasks \cup {r}
    /\ fails' = 0
    /\ UNCHANGED <<driver, stream, calls, hist, handler_max_times, aborted,
                   prodVars, libVars, extVars>>

\* Event::Event(Some(Err(e))), e of severity sev: warn, then one outer delay,
\* or abort_internal when the outer sequence is exhausted.  The arm only logs
\* e and never reads its severity, so the step is the same for every sev.
RecvErrSpawns(sev) ==
    /\ aborted = "no"
    /\ driver = "recv"
    /\ fails' = fails + 1
    /\ IF HasNext(backoff, OuterMaxTimes)
         THEN /\ backoff' = Advance(backoff)
              /\ driver' = "sleep_err"
         ELSE /\ backoff' = backoff
              /\ driver' = "abort_internal"
    /\ IF spawned < MaxRecords
         THEN /\ spawned' = spawned + 1
              /\ task_pc' = [task_pc EXCEPT ![spawned + 1] = "ready"]
              /\ tasks' = tasks \cup {spawned + 1}
         ELSE UNCHANGED <<spawned, task_pc, tasks>>
    /\ UNCHANGED <<stream, task_backoff, calls, hist, handler_max_times, aborted,
                   prodVars, libVars, extVars>>

RecvErr(sev) ==
    /\ aborted = "no"
    /\ driver = "recv"
    /\ fails' = fails + 1
    /\ IF HasNext(backoff, OuterMaxTimes)
         THEN /\ backoff' = Advance(backoff)
              /\ driver' = "sleep_err"
         ELSE /\ backoff' = backoff
              /\ driver' = "abort_internal"
    /\ UNCHANGED <<stream, tasks, spawned, taskVars, handler_max_times, aborted,
                   prodVars, libVars, extVars>>

\* tokio::time::sleep(backoff).await is over: back to the select.
WakeErr ==
    /\ aborted = "no"
    /\ driver = "sleep_err"
    /\ driver' = "recv"
    /\ UNCHANGED <<stream, backoff, tasks, spawned, fails, taskVars,
                   handler_max_times, aborted,
                   prodVars, libVars, extVars>>

\* Event::Event(None) => break 'recv, then the hang-up backoff.
StreamEndReturns ==
    /\ aborted = "no"
    /\ driver = "recv"
    /\ stream' = "ended"
    /\ fails' = fails + 1
    /\ driver' = "returned"
    /\ UNCHANGED <<backoff, tasks, spawned, taskVars, handler_max_times, aborted,
                   prodVars, libVars, extVars>>

StreamEnd ==
    /\ aborted = "no"
    /\ driver = "recv"
    /\ stream' = "ended"
    /\ fails' = fails + 1
    /\ IF HasNext(backoff, OuterMaxTimes)
         THEN /\ backoff' = Advance(backoff)
              /\ driver' = "sleep_hup"
         ELSE /\ backoff' = backoff
              /\ driver' = "abort_internal"
    /\ UNCHANGED <<tasks, spawned, taskVars, handler_max_times, aborted,
                   prodVars, libVars, extVars>>

\* The hang-up sleep is over: the next iteration of the reconnect loop opens
\* a fresh stream and a fresh, empty task set (the JoinHandles of the previous
\* set are dropped, which detaches their tasks), and reaches the select.
WakeHupNoReconnect ==
    /\ aborted = "no"
    /\ driver = "sleep_hup"
    /\ driver' = "recv"
    /\ UNCHANGED <<stream, tasks, backoff, spawned, fails, taskVars,
                   handler_max_times, aborted,
                   prodVars, libVars, extVars>>

WakeHupAbortsTasks ==
    /\ aborted = "no"
    /\ driver = "sleep_hup"
    /\ driver' = "recv"
    /\ stream' = "open"
    /\ tasks' = {}
    /\ task_pc' = [r \in Records |->
                       IF r \in tasks /\ task_pc[r] \in {"ready", "running", "sleeping"}
                         THEN "done" ELSE task_pc[r]]
    /\ UNCHANGED <<backoff, spawned, fails, task_backoff, calls, hist,
                   handler_max_times, aborted,
                   prodVars, libVars, extVars>>

WakeHupResetsBackoff ==
    /\ aborted = "no"
    /\ driver = "sleep_hup"
    /\ driver' = "recv"
    /\ stream' = "open"
    /\ tasks' = {}
    /\ backoff' = Build
    /\ UNCHANGED <<spawned, fails, taskVars, handler_max_times, aborted,
                   prodVars, libVars, extVars>>

WakeHup ==
    /\ aborted = "no"
    /\ driver = "sleep_hup"
    /\ driver' = "recv"
    /\ stream' = "open"
    /\ tasks' = {}
    /\ UNCHANGED <<backoff, spawned, fails, taskVars, handler_max_times, aborted,
                   prodVars, libVars, extVars>>

\* Event::Task(Ok(())): a joined task finished; nothing to do.
TaskJoinOk(r) ==
    /\ aborted = "no"
    /\ driver = "recv"
    /\ r \in tasks
    /\ task_pc[r] = "done"
    /\ tasks' = tasks \ {r}
    /\ UNCHANGED <<driver, stream, backoff, spawned, fails, taskVars,
                   handler_max_times, aborted,
                   prodVars, libVars, extVars>>

\* Event::Task(Err(e)): a joined task panicked; abort().
TaskJoinErr(r) ==
    /\ aborted = "no"
    /\ driver = "recv"
    /\ r \in tasks
    /\ task_pc[r] = "panicked"
    /\ tasks' = tasks \ {r}
    /\ driver' = "abort"
    /\ UNCHANGED <<stream, backoff, spawned, fails, taskVars,
                   handler_max_times, aborted,
                   prodVars, libVars, extVars>>

\* The 5 s sleep of abort / abort_internal in the driver is over.
DriverAbort ==
    /\ aborted = "no"
    /\ driver \in {"abort", "abort_internal"}
    /\ aborted' = driver
    /\ UNCHANGED <<driverVars, taskVars, handler_max_times, prodVars, libVars, extVars>>

\* ------------------------------------------------------------- handler task
\* The spawned task is scheduled: the first handle.clone()(evt.clone()).
InvokeAfterDelay(r) ==
    /\ aborted = "no"
    /\ task_pc[r] = "ready"
    /\ task_pc' = [task_pc EXCEPT ![r] = "running"]
    /\ task_backoff' = [task_backoff EXCEPT ![r] = Advance(@)]
    /\ calls' = [calls EXCEPT ![r] = @ + 1]
    /\ UNCHANGED <<driverVars, hist, handler_max_times, aborted,
                   prodVars, libVars, extVars>>

Invoke(r) ==
    /\ aborted = "no"
    /\ task_pc[r] = "ready"
    /\ task_pc' = [task_pc EXCEPT ![r] = "running"]
    /\ calls' = [calls EXCEPT ![r] = @ + 1]
    /\ UNCHANGED <<driverVars, task_backoff, hist, handler_max_times, aborted,
                   prodVars, libVars, extVars>>

\* match severity: what the task does with Err(e).
OnSeverityPermRetries(sev) ==
    CASE sev = "Transient" -> "retry"
      [] sev = "Permanent" -> "retry"
      [] sev = "Fatal" -> "abort"

OnSeverityNoRetry(sev) ==
    CASE sev = "Transient" -> "break"
      [] sev = "Permanent" -> "break"
      [] sev = "Fatal" -> "abort"

OnSeverity(sev) ==
    CASE sev = "Transient" -> "retry"
      [] sev = "Permanent" -> "break"
      [] sev = "Fatal" -> "abort"

\* match fut.await, and the inner backoff.next() that follows a Transient.
HandlerReturn(r, res) ==
    /\ aborted = "no"
    /\ task_pc[r] = "running"
    /\ hist' = [hist EXCEPT ![r] = Append(@, res)]
    /\ LET todo == IF res = "Ok" THEN "break" ELSE OnSeverity(res) IN
        CASE todo = "break" ->
                /\ task_pc' = [task_pc EXCEPT ![r] = "done"]
                /\ UNCHANGED task_backoff
          [] todo = "abort" ->
                /\ task_pc' = [task_pc EXCEPT ![r] = "grace"]
                /\ UNCHANGED task_backoff
          [] todo = "retry" ->
                IF HasNext(task_backoff[r], handler_max_times)
                  THEN /\ task_backoff' = [task_backoff EXCEPT ![r] = Advance(@)]
                       /\ task_pc' = [task_pc EXCEPT ![r] = "sleeping"]
                  ELSE /\ task_pc' = [task_pc EXCEPT ![r] = "done"]
                       /\ UNCHANGED task_backoff
    /\ UNCHANGED <<driverVars, calls, handler_max_times, aborted,
                   prodVars, libVars, extVars>>

\* The handler future panics: the task ends with a JoinError.
HandlerPanic(r) ==
    /\ aborted = "no"
    /\ task_pc[r] = "running"
    /\ task_pc' = [task_pc EXCEPT ![r] = "panicked"]
    /\ UNCHANGED <<driverVars, task_backoff, calls, hist, handler_max_times, aborted,
                   prodVars, libVars, extVars>>

\* tokio::time::sleep(backoff).await is over: top of 'retry, where the
\* handler is invoked again with a clone of the event.
Retry(r) ==
    /\ aborted = "no"
    /\ task_pc[r] = "sleeping"
    /\ task_pc' = [task_pc EXCEPT ![r] = "running"]
    /\ calls' = [calls EXCEPT ![r] = @ + 1]
    /\ UNCHANGED <<driverVars, task_backoff, hist, handler_max_times, aborted,
                   prodVars, libVars, extVars>>

\* The 5 s sleep of abort() inside the task is over.
TaskAbort(r) ==
    /\ aborted = "no"
    /\ task_pc[r] = "grace"
    /\ aborted' = "abort"
    /\ UNCHANGED <<driverVars, taskVars, handler_max_times, prodVars, libVars, extVars>>

Next ==
    \/ Connect
    \/ RecvOk
    \/ \E sev \in Severity : RecvErr(sev)
    \/ WakeErr
    \/ StreamEnd
    \/ WakeHup
    \/ \E r \in Records : TaskJoinOk(r)
    \/ \E r \in Records : TaskJoinErr(r)
    \/ DriverAbort
    \/ \E r \in Records : Invoke(r)
    \/ \E r \in Records, res \in HandlerResults : HandlerReturn(r, res)
    \/ \E r \in Records : HandlerPanic(r)
    \/ \E r \in Records : Retry(r)
    \/ \E r \in Records : TaskAbort(r)

Spec == Init /\ [][Next]_vars

\* ------------------------------------------------------------- Producer::send
\* The closure of fetch_update: the timestamp t is stale for the reading n.
StaleInclusive(t, n) == t <= (n - INTERVAL)
Stale(t, n) == t < (n - INTERVAL)

\* rand::thread_rng().gen_range(0..parts): the values it may return (it
\* panics on an empty range).
GenRangeInclusive(n) == 0..n
GenRange(n) == 0..(n - 1)

\* .try_into().unwrap_or(0): usize to i32, 0 when it does not fit.
ToPartition(p) == IF p <= I32_MAX THEN p ELSE 0

\* let now = chrono::Local::now().timestamp(), reading t.
SendStart(s, t) ==
    /\ send_pc[s] = "idle"
    /\ now' = [now EXCEPT ![s] = t]
    /\ send_pc' = [send_pc EXCEPT ![s] = "gate"]
    /\ UNCHANGED <<consVars, libVars, extVars, partition_count, last_partition_check, claimed,
                   fetched, parts, part, result,
                   writes>>

\* last_partition_check.fetch_update(.., |t| (t < now - INTERVAL).then_some(now)):
\* one atomic read-modify-write; Ok claims the refresh.
FetchUpdateNoStore(s) ==
    /\ send_pc[s] = "gate"
    /\ IF Stale(last_partition_check, now[s])
         THEN /\ claimed' = [claimed EXCEPT ![s] = TRUE]
              /\ send_pc' = [send_pc EXCEPT ![s] = "fetch"]
         ELSE /\ send_pc' = [send_pc EXCEPT ![s] = "load"]
              /\ UNCHANGED claimed
    /\ UNCHANGED <<consVars, libVars, extVars, partition_count, last_partition_check, now,
                   fetched, parts, part, result,
                   writes>>

FetchUpdateUnconditional(s) ==
    /\ send_pc[s] = "gate"
    /\ last_partition_check' = now[s]
    /\ IF Stale(last_partition_check, now[s])
         THEN /\ claimed' = [claimed EXCEPT ![s] = TRUE]
              /\ send_pc' = [send_pc EXCEPT ![s] = "fetch"]
         ELSE /\ send_pc' = [send_pc EXCEPT ![s] = "load"]
              /\ UNCHANGED claimed
    /\ UNCHANGED <<consVars, libVars, extVars, partition_count, now, fetched, parts, part, result,
                   writes>>

FetchUpdate(s) ==
    /\ send_pc[s] = "gate"
    /\ IF Stale(last_partition_check, now[s])
         THEN /\ last_partition_check' = now[s]
              /\ claimed' = [claimed EXCEPT ![s] = TRUE]
              /\ send_pc' = [send_pc EXCEPT ![s] = "fetch"]
         ELSE /\ send_pc' = [send_pc EXCEPT ![s] = "load"]
              /\ UNCHANGED <<last_partition_check, claimed>>
    /\ UNCHANGED <<consVars, libVars, extVars, partition_count, now, fetched, parts, part, result,
                   writes>>

\* fetch_metadata returned Ok(m), the topic has n partitions: store n in the
\* cache and go on with Some(n).
FetchMetadataOk(s, n) ==
    /\ send_pc[s] = "fetch"
    /\ partition_count' = n
    /\ fetched' = [fetched EXCEPT ![s] = "ok"]
    /\ parts' = [parts EXCEPT ![s] = n]
    /\ send_pc' = [send_pc EXCEPT ![s] = "pick"]
    /\ UNCHANGED <<consVars, libVars, extVars, last_partition_check, now, claimed, part, result,
                   writes>>

\* fetch_metadata returned Err(e): warn, go on with None.
FetchMetadataErrRollsBack(s) ==
    /\ send_pc[s] = "fetch"
    /\ fetched' = [fetched EXCEPT ![s] = "err"]
    /\ send_pc' = [send_pc EXCEPT ![s] = "load"]
    /\ last_partition_check' = I64_MIN
    /\ UNCHANGED <<consVars, libVars, extVars, partition_count, now,
                   claimed, parts, part, result,
                   writes>>

FetchMetadataErr(s) ==
    /\ send_pc[s] = "fetch"
    /\ fetched' = [fetched EXCEPT ![s] = "err"]
    /\ send_pc' = [send_pc EXCEPT ![s] = "load"]
    /\ UNCHANGED <<consVars, libVars, extVars, partition_count, last_partition_check, now,
                   claimed, parts, part, result,
                   writes>>

\* parts.unwrap_or_else(|| partition_count.load(Relaxed)) with parts = None.
Load(s) ==
    /\ send_pc[s] = "load"
    /\ parts' = [parts EXCEPT ![s] = partition_count]
    /\ send_pc' = [send_pc EXCEPT ![s] = "pick"]
    /\ UNCHANGED <<consVars, libVars, extVars, partition_count, last_partition_check, now,
                   claimed, fetched, part, result,
                   writes>>

\* gen_range(0..parts).try_into().unwrap_or(0), then the broker write is
\* started; gen_range panics when the range is empty.
Pick(s) ==
    /\ send_pc[s] = "pick"
    /\ IF GenRange(parts[s]) = {}
         THEN /\ send_pc' = [send_pc EXCEPT ![s] = "panicked"]
              /\ UNCHANGED <<part, writes>>
         ELSE \E p \in GenRange(parts[s]) :
                /\ part' = [part EXCEPT ![s] = ToPartition(p)]
                /\ writes' = [writes EXCEPT ![s] = @ + 1]
                /\ send_pc' = [send_pc EXCEPT ![s] = "write"]
    /\ UNCHANGED <<consVars, libVars, extVars, partition_count, last_partition_check, now,
                   claimed, fetched, parts, result>>

\* producer.send(..).await resolved: Ok((partition, offset)) => Ok(()),
\* Err((err, msg)) => Err(SendError(err)).
Write(s, res) ==
    /\ send_pc[s] = "write"
    /\ result' = [result EXCEPT ![s] = res]
    /\ send_pc' = [send_pc EXCEPT ![s] = "done"]
    /\ UNCHANGED <<consVars, libVars, extVars, partition_count, last_partition_check, now,
                   claimed, fetched, parts, part,
                   writes>>

ProducerNext ==
    \/ \E s \in Sends, t \in Instants : SendStart(s, t)
    \/ \E s \in Sends : FetchUpdate(s)
    \/ \E s \in Sends, n \in PartitionCounts : FetchMetadataOk(s, n)
    \/ \E s \in Sends : FetchMetadataErr(s)
    \/ \E s \in Sends : Load(s)
    \/ \E s \in Sends : Pick(s)
    \/ \E s \in Sends, res \in {"Ok", "Err"} : Write(s, res)

\* The sends run on their own: consume() is not running, so its argument is
\* irrelevant and fixed.
ProducerInit == Init /\ handler_max_times = 0

ProducerSpec == ProducerInit /\ [][ProducerNext]_vars

\* ------------------------------------------------------------- from_message
\* const REQUESTED_TOPICS: &[&str] = &["foo-bar"]
REQUESTED_TOPICS == {"foo-bar"}

\* msg.topic() of an inbound record.
Topics == {"foo-bar", "foo", ""}

\* msg.key() / msg.payload(): None (absent), bytes that decode as proto::Test
\* (valid), bytes that do not (malformed).
Bytes == {"absent", "valid", "malformed"}

Messages == [topic : Topics, key : Bytes, payload : Bytes]

\* impl MessageGroup for MyGroup: from_message.  The result is Ok (a
\* MyGroup::Test) or the RecvError variant returned.
from_message_any_topic(m) ==
    IF m.key = "absent" THEN "MissingKey"
    ELSE IF m.payload = "absent" THEN "MissingPayload"
    ELSE IF m.key = "malformed" \/ m.payload = "malformed" THEN "Protobuf"
    ELSE "Ok"

from_message(m) ==
    IF m.key = "absent" THEN "MissingKey"
    ELSE IF m.payload = "absent" THEN "MissingPayload"
    ELSE IF m.topic = "foo-bar"
           THEN IF m.key = "malformed" \/ m.payload = "malformed"
                  THEN "Protobuf"
                  ELSE "Ok"
           ELSE "BadTopic"

\* One call of G::from_message(&m), as made by ConsumerStream::poll_next.
DecodeRecord(m) ==
    /\ call = "none"
    /\ call' = "from_message"
    /\ msg' = m
    /\ decoded' = from_message(m)
    /\ UNCHANGED <<consVars, prodVars, extVars, err, classified, def, derived>>

\* ------------------------------------------------------------- derive(Triage)
\* Bounds of the definitions handed to the derive macro: attributes on the
\* variant (or struct), and fields of the variant.
MaxAttrs == 3
MaxFields == 2

\* get_ident() of an attribute on a variant or struct; error stands for every
\* ident that is not a severity (thiserror's #[error(..)], doc comments).
AttrIdents == {"transient", "permanent", "fatal", "error"}

\* The attribute idents of one field.
FieldAttrs == SUBSET {"source", "from"}

RECURSIVE SeqsUpTo(_, _)
SeqsUpTo(S, n) ==
    IF n = 0 THEN {<<>>}
    ELSE LET shorter == SeqsUpTo(S, n - 1)
         IN shorter \cup {Append(q, x) : q \in shorter, x \in S}

\* A variant or struct as parse_fields receives it.
Definitions == [attrs : SeqsUpTo(AttrIdents, MaxAttrs),
                fields : SeqsUpTo(FieldAttrs, MaxFields)]

\* match a.meta.path().get_ident(): the severity an attribute names, if any.
SeverityAttr(a) ==
    CASE a = "transient" -> "Transient"
      [] a = "permanent" -> "Permanent"
      [] a = "fatal" -> "Fatal"
      [] OTHER -> "none"

\* if d.is_some() && next.is_some(): a second severity attribute.
DuplicateSameOnly(d, next) == d # "none" /\ next = d

Duplicate(d, next) == d # "none" /\ next # "none"

\* attrs.into_iter().fold(None, |d, a| ..): the explicit severity (the last
\* severity attribute wins, next.or(d)) and the diagnostics emitted.
RECURSIVE ExplicitFold(_, _, _)
ExplicitFold(attrs, k, acc) ==
    IF k > Len(attrs) THEN acc
    ELSE LET next == SeverityAttr(attrs[k])
         IN ExplicitFold(attrs, k + 1,
               [d |-> IF next # "none" THEN next ELSE acc.d,
                diag |-> IF Duplicate(acc.d, next)
                           THEN Append(acc.diag, "Duplicate severity attribute")
                           ELSE acc.diag])

\* f.attrs.iter().any(|a| matches!(.., Some("source" | "from")))
Marked(f) == f \cap {"source", "from"} # {}

\* fields.iter().enumerate().fold(None, |s, (i, f)| ..): the 0-based index of
\* the last marked field (next.or(s)) and the diagnostics emitted.
RECURSIVE SourceFold(_, _, _)
SourceFold(fields, k, acc) ==
    IF k > Len(fields) THEN acc
    ELSE LET next == IF Marked(fields[k]) THEN k - 1 ELSE None
         IN SourceFold(fields, k + 1,
               [s |-> IF next # None THEN next ELSE acc.s,
                diag |-> IF acc.s # None /\ next # None
                           THEN Append(acc.diag,
                                       "Multiple fields marked with #[source]")
                           ELSE acc.diag])

\* parse_fields: the generated severity expression (a Severity constant, or
\* delegate for Triage::severity(field)), the field destructured, and the
\* diagnostics appended to diag.
parse_fields_source_wins(d) ==
    LET e == ExplicitFold(d.attrs, 1, [d |-> "none", diag |-> <<>>])
        s == SourceFold(d.fields, 1, [s |-> None, diag |-> e.diag])
    IN IF s.s = None
         THEN [severity |-> IF e.d = "none" THEN "Permanent" ELSE e.d,
               field |-> None, diag |-> s.diag]
         ELSE [severity |-> "delegate", field |-> s.s, diag |-> s.diag]

parse_fields_default_transient(d) ==
    LET e == ExplicitFold(d.attrs, 1, [d |-> "none", diag |-> <<>>])
        s == SourceFold(d.fields, 1, [s |-> None, diag |-> e.diag])
    IN IF s.s = None \/ e.d # "none"
         THEN [severity |-> IF e.d = "none" THEN "Transient" ELSE e.d,
               field |-> None, diag |-> s.diag]
         ELSE [severity |-> "delegate", field |-> s.s, diag |-> s.diag]

parse_fields_ignores_source(d) ==
    LET e == ExplicitFold(d.attrs, 1, [d |-> "none", diag |-> <<>>])
        s == SourceFold(d.fields, 1, [s |-> None, diag |-> e.diag])
    IN [severity |-> IF e.d = "none" THEN "Permanent" ELSE e.d,
        field |-> None, diag |-> s.diag]

parse_fields(d) ==
    LET e == ExplicitFold(d.attrs, 1, [d |-> "none", diag |-> <<>>])
        s == SourceFold(d.fields, 1, [s |-> None, diag |-> e.diag])
    IN IF s.s = None \/ e.d # "none"
         THEN [severity |-> IF e.d = "none" THEN "Permanent" ELSE e.d,
               field |-> None, diag |-> s.diag]
         ELSE [severity |-> "delegate", field |-> s.s, diag |-> s.diag]

\* One expansion of derive(Triage) on a variant (try_impl_enum) or a struct
\* (try_impl_struct).
DeriveTriage(d) ==
    /\ call = "none"
    /\ call' = "derive"
    /\ def' = d
    /\ derived' = parse_fields(d)
    /\ UNCHANGED <<consVars, prodVars, extVars, msg, decoded, err, classified>>

\* The attributes and fields of the types of this repository that derive
\* Triage, per type and variant (a struct is its own only variant).
TypeDefKafkaTransient(ty, variant) ==
    CASE ty = "SendError" ->
            [attrs |-> <<"doc", "error">>, fields |-> <<{"source"}>>]
      [] ty = "RecvError" /\ variant = "Kafka" ->
            [attrs |-> <<"doc", "error", "transient">>, fields |-> <<{}>>]
      [] ty = "RecvError" /\ variant = "Protobuf" ->
            [attrs |-> <<"doc", "error">>, fields |-> <<{"from"}>>]
      [] ty = "RecvError" /\ variant = "BadTopic" ->
            [attrs |-> <<"doc", "error">>, fields |-> <<{}>>]
      [] ty = "RecvError" /\ variant \in {"MissingKey", "MissingPayload"} ->
            [attrs |-> <<"doc", "error">>, fields |-> <<>>]
      [] ty = "DeductionErrorKind" /\ variant = "MissingItem" ->
            [attrs |-> <<"doc", "error">>, fields |-> <<>>]
      [] ty = "DeductionErrorKind" /\ variant = "InsufficientBalance" ->
            [attrs |-> <<"doc", "error">>, fields |-> <<{"doc"}, {"doc"}>>]
      [] ty = "DeductionErrorKind" /\ variant = "InvalidCost" ->
            [attrs |-> <<"doc", "error">>, fields |-> <<{}>>]
      [] ty = "DeductionErrorKind" /\ variant = "Send" ->
            [attrs |-> <<"doc", "error">>, fields |-> <<{"from"}>>]
      [] ty = "DeductionError" ->
            [attrs |-> <<"doc", "doc", "error">>,
             fields |-> <<{}, {}, {"source"}>>]

TypeDef(ty, variant) ==
    CASE ty = "SendError" ->
            [attrs |-> <<"doc", "error">>, fields |-> <<{"source"}>>]
      [] ty = "RecvError" /\ variant \in {"Kafka", "Protobuf"} ->
            [attrs |-> <<"doc", "error">>, fields |-> <<{"from"}>>]
      [] ty = "RecvError" /\ variant = "BadTopic" ->
            [attrs |-> <<"doc", "error">>, fields |-> <<{}>>]
      [] ty = "RecvError" /\ variant \in {"MissingKey", "MissingPayload"} ->
            [attrs |-> <<"doc", "error">>, fields |-> <<>>]
      [] ty = "DeductionErrorKind" /\ variant = "MissingItem" ->
            [attrs |-> <<"doc", "error">>, fields |-> <<>>]
      [] ty = "DeductionErrorKind" /\ variant = "InsufficientBalance" ->
            [attrs |-> <<"doc", "error">>, fields |-> <<{"doc"}, {"doc"}>>]
      [] ty = "DeductionErrorKind" /\ variant = "InvalidCost" ->
            [attrs |-> <<"doc", "error">>, fields |-> <<{}>>]
      [] ty = "DeductionErrorKind" /\ variant = "Send" ->
            [attrs |-> <<"doc", "error">>, fields |-> <<{"from"}>>]
      [] ty = "DeductionError" ->
            [attrs |-> <<"doc", "doc", "error">>,
             fields |-> <<{}, {}, {"source"}>>]

\* ------------------------------------------------------------- error values
\* Nesting depth of Box around an error.
MaxBoxDepth == 2

\* RDKafkaErrorCode values (two of the many), and none for no code.
Codes == {"BrokerTransportFailure", "UnknownTopicOrPartition"}

\* KafkaError variants whose rdkafka_error_code() is Some, and variants for
\* which it is None.
CodedVariants == {"Global", "MessageConsumption", "MessageProduction"}
UncodedVariants == {"NoMessageReceived", "PartitionEOF", "Nul", "Canceled",
                    "Subscription", "ClientCreation"}

\* rdkafka::error::KafkaError.  code is what rdkafka_error_code() returns;
\* retriable is is_retriable() of the RDKafkaError inside Transaction.  A
\* Transaction error is given with and without a code.
KafkaErrors ==
    {[ty |-> "KafkaError", variant |-> v, code |-> c, retriable |-> FALSE] :
        v \in CodedVariants, c \in Codes}
    \cup
    {[ty |-> "KafkaError", variant |-> v, code |-> "none", retriable |-> FALSE] :
        v \in UncodedVariants}
    \cup
    {[ty |-> "KafkaError", variant |-> "Transaction", code |-> c, retriable |-> r] :
        c \in Codes \cup {"none"}, r \in BOOLEAN}

\* reqwest::Error.  kind is its Kind; status is the code of Kind::Status and
\* None for every other kind; timeout and connect are is_timeout() and
\* is_connect(), which look into the source chain of the error.
Kinds == {"Builder", "Request", "Redirect", "Status", "Body", "Decode",
          "Upgrade"}
StatusCodes == {100, 204, 301, 404, 500}

ReqwestErrors ==
    {[ty |-> "reqwest::Error", kind |-> "Status", status |-> s,
      timeout |-> FALSE, connect |-> FALSE] : s \in StatusCodes}
    \cup
    {[ty |-> "reqwest::Error", kind |-> k, status |-> None,
      timeout |-> t, connect |-> c] :
        k \in Kinds \ {"Status"}, t \in BOOLEAN, c \in BOOLEAN}

DecodeErrors == {[ty |-> "DecodeError"]}

\* A field that is not an error, or no field.
NoInner == [ty |-> "none"]

SendErrors ==
    {[ty |-> "SendError", variant |-> "SendError", inner |-> e] :
        e \in KafkaErrors}

RecvErrors ==
    {[ty |-> "RecvError", variant |-> "Kafka", inner |-> e] : e \in KafkaErrors}
    \cup
    {[ty |-> "RecvError", variant |-> "Protobuf", inner |-> e] :
        e \in DecodeErrors}
    \cup
    {[ty |-> "RecvError", variant |-> v, inner |-> NoInner] :
        v \in {"BadTopic", "MissingKey", "MissingPayload"}}

DeductionErrorKinds ==
    {[ty |-> "DeductionErrorKind", variant |-> v, inner |-> NoInner] :
        v \in {"MissingItem", "InsufficientBalance", "InvalidCost"}}
    \cup
    {[ty |-> "DeductionErrorKind", variant |-> "Send", inner |-> e] :
        e \in SendErrors}

DeductionErrors ==
    {[ty |-> "DeductionError", variant |-> "DeductionError", inner |-> k] :
        k \in DeductionErrorKinds}

Unboxed == KafkaErrors \cup ReqwestErrors \cup DecodeErrors \cup SendErrors
           \cup RecvErrors \cup DeductionErrorKinds \cup DeductionErrors

\* Box<T>, Box<dyn Triage + 'a>, Box<dyn Triage + Send + Sync + 'a>
BoxForms == {"Box<T>", "Box<dyn Triage>", "Box<dyn Triage + Send + Sync>"}

RECURSIVE Boxed(_)
Boxed(n) ==
    IF n = 0 THEN Unboxed
    ELSE Boxed(n - 1)
         \cup {[ty |-> f, inner |-> e] : f \in BoxForms, e \in Boxed(n - 1)}

Errors == Boxed(MaxBoxDepth)

\* ------------------------------------------------------------- severity
\* impl Triage for RDKafkaErrorCode
RDKafkaErrorCodeSeverity(c) == "Transient"

\* impl Triage for KafkaError: the code first, then the structural match.
KafkaSeverityNoNul(e) ==
    IF e.code # "none" THEN RDKafkaErrorCodeSeverity(e.code)
    ELSE CASE e.variant \in {"NoMessageReceived", "PartitionEOF"} -> "Transient"
           [] e.variant = "Transaction" /\ e.retriable -> "Transient"
           [] OTHER -> "Permanent"

KafkaSeverity(e) ==
    IF e.code # "none" THEN RDKafkaErrorCodeSeverity(e.code)
    ELSE CASE e.variant \in {"NoMessageReceived", "PartitionEOF"} -> "Transient"
           [] e.variant = "Transaction" /\ e.retriable -> "Transient"
           [] e.variant = "Nul" -> "Fatal"
           [] OTHER -> "Permanent"

\* http::StatusCode class tests
is_informational(s) == 100 <= s /\ s < 200
is_success(s) == 200 <= s /\ s < 300
is_client_error(s) == 400 <= s /\ s < 500

\* impl Triage for reqwest::Error
ReqwestSeverityWithRedirection(e) ==
    IF \/ /\ e.kind = "Status"
          /\ e.status # None
          /\ \/ is_informational(e.status)
             \/ is_success(e.status)
             \/ 300 <= e.status /\ e.status < 400
             \/ is_client_error(e.status)
       \/ e.timeout
       \/ e.connect
       \/ e.kind = "Body"
       \/ e.kind = "Decode"
      THEN "Transient"
      ELSE "Permanent"

ReqwestSeverity(e) ==
    IF \/ /\ e.kind = "Status"
          /\ e.status # None
          /\ \/ is_informational(e.status)
             \/ is_success(e.status)
             \/ is_client_error(e.status)
       \/ e.timeout
       \/ e.connect
       \/ e.kind = "Body"
       \/ e.kind = "Decode"
      THEN "Transient"
      ELSE "Permanent"

\* impl Triage for Box<..>: what the call on the boxed value returned.
BoxSeverityDynPermanent(form, s) == IF form = "Box<T>" THEN s ELSE "Permanent"

BoxSeverity(form, s) == s

\* Triage::severity(&e), dispatched on the type of e; a derived type runs the
\* match arm parse_fields generated for its variant.
RECURSIVE severity(_)
severity(e) ==
    CASE e.ty = "DecodeError" -> "Permanent"
      [] e.ty = "KafkaError" -> KafkaSeverity(e)
      [] e.ty = "reqwest::Error" -> ReqwestSeverity(e)
      [] e.ty \in BoxForms -> BoxSeverity(e.ty, severity(e.inner))
      [] OTHER ->
            LET arm == parse_fields(TypeDef(e.ty, e.variant))
            IN IF arm.severity = "delegate"
                 THEN severity(e.inner)
                 ELSE arm.severity

\* One call of e.severity().
Classify(e) ==
    /\ call = "none"
    /\ call' = "severity"
    /\ err' = e
    /\ classified' = severity(e)
    /\ UNCHANGED <<consVars, prodVars, extVars, msg, decoded, def, derived>>

LibNext ==
    \/ \E m \in Messages : DecodeRecord(m)
    \/ \E e \in Errors : Classify(e)
    \/ \E d \in Definitions : DeriveTriage(d)

\* The library functions are called on their own: no consumer record, no
\* send, and the default handler backoff.
LibStart == Init /\ handler_max_times = 0

LibSpec == LibStart /\ [][LibNext]_vars

\* ------------------------------------------------------------- proxy_ipfs_image
\* Number of calls of proxy_ipfs_image on one AssetProxy.
MaxProxyCalls == 2

\* s.parse::<Cid>(), then cid.to_string(): the canonical text of the CID s
\* denotes (QmA, QmB: CIDv0; bafya: a CIDv1 in lower-case base32, BAFYA the
\* same CID in upper-case base32), or none when s is not a CID.
ParseCid(s) ==
    CASE s = "QmA" -> "QmA"
      [] s = "QmB" -> "QmB"
      [] s = "bafya" -> "bafya"
      [] s = "BAFYA" -> "bafya"
      [] OTHER -> "none"

\* The URLs given to proxy_ipfs_image: the labels of the domain and the
\* path segments (https, no user, no query, no fragment).
Urls ==
    [domain : {<<"ipfs", "io">>, <<"QmB", "ipfs", "io">>},
     segments : {<<>>, <<"QmA">>, <<"ipfs", "QmA">>, <<"ipfs", "BAFYA", "a.png">>,
                 <<"QmA", "QmB">>, <<"QmA", "">>, <<"img", "a.png">>}]

\* Option<ImageSize>
Sizes == {"None", "Original", "Tiny", "Large"}

\* size.unwrap_or(ImageSize::Original).as_ref(): the strum serialization.
SizeRef(size) ==
    CASE size = "Tiny" -> "100"
      [] size = "Large" -> "1000"
      [] OTHER -> "0"

\* visit_url: the (s, i) pairs handed to the closure, in order: scheme,
\* domain labels, username (index 0), the whole path (index None), and the
\* path segments (segment k, counted from 1, with index k).
Visit(u) ==
    <<[s |-> "https", i |-> 0]>>
    \o [k \in 1..Len(u.domain) |-> [s |-> u.domain[k], i |-> 0]]
    \o <<[s |-> "", i |-> 0], [s |-> "/", i |-> None]>>
    \o [k \in 1..Len(u.segments) |-> [s |-> u.segments[k], i |-> k]]

\* slice_path: the segments after the first i, joined by "/" (kept as the
\* sequence of the joined segments; one empty segment joins to the empty
\* string), and the empty string for index None.
slice_path(u, i) ==
    IF i = None THEN <<>>
    ELSE LET rest == SubSeq(u.segments, i + 1, Len(u.segments))
         IN IF rest = <<"">> THEN <<>> ELSE rest

\* advance_heuristic: the first match, the same match again, or Err on two
\* different matches.
advance_heuristic(state, value) ==
    CASE state.ty = "None" -> [ty |-> "Some", cid |-> value.cid, path |-> value.path]
      [] state.ty = "Some" /\ state.cid = value.cid /\ state.path = value.path ->
            state
      [] state.ty = "Some" -> [ty |-> "Err", cid |-> "", path |-> <<>>]
      [] OTHER -> state

\* The closure of proxy_ipfs_image run over the first k visited pairs.
RECURSIVE Heuristic(_, _)
Heuristic(u, k) ==
    IF k = 0 THEN [ty |-> "None", cid |-> "", path |-> <<>>]
    ELSE LET item == Visit(u)[k]
             cid == ParseCid(item.s)
             res == Heuristic(u, k - 1)
         IN IF cid # "none"
              THEN advance_heuristic(res, [cid |-> cid,
                                           path |-> slice_path(u, item.i)])
              ELSE res

\* proxy_ipfs_image on an AssetProxy whose assets_cdn is cdn: the assets_cdn
\* it leaves and the value it returns.
proxy_ipfs_image(cdn, u, size) ==
    LET res == Heuristic(u, Len(Visit(u)))
    IN IF res.ty = "Some"
         THEN LET proxy_url ==
                    [path |-> cdn.path \o <<"ipfs", res.cid>>,
                     query |-> cdn.query
                               \o <<[k |-> "width", v |-> <<SizeRef(size)>>]>>
                               \o IF res.path # <<>>
                                     THEN <<[k |-> "path", v |-> res.path]>>
                                     ELSE <<>>]
              IN [cdn |-> proxy_url, ret |-> [ty |-> "Some", url |-> proxy_url]]
         ELSE [cdn |-> cdn, ret |-> [ty |-> "None", url |-> CdnBase]]

\* One call of AssetProxy::proxy_ipfs_image(&mut self, url, size).
ProxyIpfsImage(u, size) ==
    /\ proxy_calls < MaxProxyCalls
    /\ LET r == proxy_ipfs_image(assets_cdn, u, size) IN
        /\ assets_cdn' = r.cdn
        /\ proxy_ret' = r.ret
    /\ proxy_arg' = [url |-> u, size |-> size]
    /\ proxy_calls' = proxy_calls + 1
    /\ UNCHANGED <<consVars, prodVars, libVars, buildVars, creditVars, syncVars>>

AssetNext ==
    \E u \in Urls, size \in Sizes : ProxyIpfsImage(u, size)

\* The proxy is used on its own.
AssetStart == Init /\ handler_max_times = 0

AssetSpec == AssetStart /\ [][AssetNext]_vars

\* ------------------------------------------------------------- Producer::new
\* The TopicResult of the one NewTopic in the Ok(Vec<TopicResult>) that
\* create_topics resolves to: Ok(name), or Err((name, code)) with the code
\* of the per-topic failure.
TopicResults == {"Created", "TopicAlreadyExists", "InvalidReplicationFactor",
                 "TopicAuthorizationFailed"}

\* config.create() of the admin client, with its ? and context.
NewAdmin(b, ok) ==
    /\ new_pc[b] = "admin"
    /\ IF ok
         THEN /\ new_pc' = [new_pc EXCEPT ![b] = "create_topics"]
              /\ UNCHANGED new_ret
         ELSE /\ new_pc' = [new_pc EXCEPT ![b] = "returned"]
              /\ new_ret' = [new_ret EXCEPT
                                ![b] = "Failed to create Kafka admin client"]
    /\ UNCHANGED <<consVars, prodVars, libVars, assetVars, creditVars, syncVars, new_topic>>

\* admin.create_topics(..).await.context(..)?: a request-level Err returns;
\* an Ok(Vec<TopicResult>) is dropped without being looked at.
NewCreateTopics(b, out) ==
    /\ new_pc[b] = "create_topics"
    /\ IF out = "RequestErr"
         THEN /\ new_pc' = [new_pc EXCEPT ![b] = "returned"]
              /\ new_ret' = [new_ret EXCEPT ![b] = "Failed to create test topic"]
              /\ UNCHANGED new_topic
         ELSE /\ new_pc' = [new_pc EXCEPT ![b] = "producer"]
              /\ new_topic' = [new_topic EXCEPT ![b] = out]
              /\ UNCHANGED new_ret
    /\ UNCHANGED <<consVars, prodVars, libVars, assetVars, creditVars, syncVars>>

\* config.create() of the producer, then Ok(Self { .. }).
NewProducer(b, ok) ==
    /\ new_pc[b] = "producer"
    /\ new_pc' = [new_pc EXCEPT ![b] = "returned"]
    /\ new_ret' = [new_ret EXCEPT
                      ![b] = IF ok THEN "Ok" ELSE "Failed to create Kafka producer"]
    /\ UNCHANGED <<consVars, prodVars, libVars, assetVars, creditVars, syncVars, new_topic>>

BuildNext ==
    \/ \E b \in Builds, ok \in BOOLEAN : NewAdmin(b, ok)
    \/ \E b \in Builds, out \in TopicResults \cup {"RequestErr"} :
          NewCreateTopics(b, out)
    \/ \E b \in Builds, ok \in BOOLEAN : NewProducer(b, ok)

\* The builds run on their own.
BuildStart == Init /\ handler_max_times = 0

BuildSpec == BuildStart /\ [][BuildNext]_vars

\* ------------------------------------------------------------- submit_pending_deduction
\* i64::MAX, the largest cost try_into::<i64>() accepts, and a u64 cost
\* above it; the model's integers are 32 bits wide, so the two are
\* represented by its two largest values.
I64_MAX == 2147483646
BigCost == 2147483647

\* The line items of a service and the blockchains of an action.
Items == {"Mint", "Transfer"}
Blockchains == {"OffChain", "Solana"}

\* available_balance: u64
Balances == {0, 5, 10}

\* Core::credit_sheet, a HashMap<(I, Blockchain), Option<u64>>: a price, an
\* entry without a price (None), a price above i64::MAX, and no entry for
\* (Transfer, OffChain).
CreditSheet ==
    (<<"Mint", "Solana">> :> 5)
    @@ (<<"Mint", "OffChain">> :> None)
    @@ (<<"Transfer", "Solana">> :> BigCost)

\* get_cost: credit_sheet.get(key).and_then(Option::as_ref), None when the
\* key is absent or has no price (then the caller gets MissingItem).
get_cost(key) ==
    IF key \in DOMAIN CreditSheet THEN CreditSheet[key] ELSE None

\* available_balance < credits
Insufficient(balance, credits) == balance < credits

\* submit_pending_deduction up to its first await: the cost lookup, the
\* balance check and the conversion of the cost.
SubmitStart(d, item, blockchain, balance) ==
    /\ ded_pc[d] = "idle"
    /\ ded_arg' = [ded_arg EXCEPT ![d] = [item |-> item,
                                          blockchain |-> blockchain,
                                          balance |-> balance]]
    /\ LET credits == get_cost(<<item, blockchain>>)
           failure == IF credits = None THEN "Err(MissingItem)"
                      ELSE IF Insufficient(balance, credits)
                             THEN "Err(InsufficientBalance)"
                      ELSE IF credits > I64_MAX THEN "Err(InvalidCost)"
                      ELSE "none"
       IN IF failure # "none"
            THEN /\ ded_pc' = [ded_pc EXCEPT ![d] = "returned"]
                 /\ ded_ret' = [ded_ret EXCEPT ![d] = failure]
            ELSE /\ ded_pc' = [ded_pc EXCEPT ![d] = "lock"]
                 /\ UNCHANGED ded_ret
    /\ UNCHANGED <<consVars, prodVars, libVars, assetVars, buildVars, syncVars, ded_sent>>

\* self.core.rng.lock().await acquired: the transaction id is generated and
\* the event is handed to Producer::send.
SubmitSend(d) ==
    /\ ded_pc[d] = "lock"
    /\ ded_pc' = [ded_pc EXCEPT ![d] = "send"]
    /\ ded_sent' = [ded_sent EXCEPT ![d] = @ + 1]
    /\ UNCHANGED <<consVars, prodVars, libVars, assetVars, buildVars, syncVars, ded_arg,
                   ded_ret>>

\* self.producer.send(..).await resolved (Producer::send itself is the
\* subject of ProducerSpec): Ok(()) gives Ok(TransactionId(txid)), Err(e)
\* gives Err(DeductionError { kind: Send(e) }).
SubmitReturn(d, res) ==
    /\ ded_pc[d] = "send"
    /\ ded_pc' = [ded_pc EXCEPT ![d] = "returned"]
    /\ ded_ret' = [ded_ret EXCEPT
                      ![d] = IF res = "Ok" THEN "Ok(TransactionId)"
                                           ELSE "Err(Send)"]
    /\ UNCHANGED <<consVars, prodVars, libVars, assetVars, buildVars, syncVars, ded_arg,
                   ded_sent>>

CreditsNext ==
    \/ \E d \in Deductions, item \in Items, blockchain \in Blockchains,
          balance \in Balances : SubmitStart(d, item, blockchain, balance)
    \/ \E d \in Deductions : SubmitSend(d)
    \/ \E d \in Deductions, res \in {"Ok", "Err"} : SubmitReturn(d, res)

\* The client is used on its own.
CreditsStart == Init /\ handler_max_times = 0

CreditsSpec == CreditsStart /\ [][CreditsNext]_vars

\* ------------------------------------------------------------- sync_schemas
\* schema.spec.version of every schema of the config.
ConfigVersion == 1

\* The entry a lockfile left by an earlier run may hold for a subject: none,
\* one for the configured version, one for another version.
LockEntries == {NoLock,
                [version |-> 1, sha512 |-> "h1"],
                [version |-> 2, sha512 |-> "h1"]}

\* read_lock: the entry of the subject when its version is the configured
\* one, None otherwise.
read_lock(map, s) ==
    IF map[s] # NoLock /\ map[s].version = ConfigVersion
      THEN map[s]
      ELSE NoLock

\* sync_schemas up to block_on: the config and the lockfile are read; l is
\* what the lockfile holds (nothing when it does not exist).
SyncStart(l) ==
    /\ sync_pc = "idle"
    /\ sync_pc' = "fetching"
    /\ lock_disk' = l
    /\ lock_map' = l
    /\ new_lock_map' = l
    /\ UNCHANGED <<consVars, prodVars, libVars, assetVars, buildVars, creditVars,
                   fetch_res, sync_ret>>

\* fetch_schema of schema s ran to its end.  out is what it met: the local
\* file passed check_schema (cached), the request failed or returned a
\* non-success status (http), or a body with the given SHA-512 was
\* downloaded and written.
FetchSchema(s, out) ==
    /\ sync_pc = "fetching"
    /\ fetch_res[s] = "none"
    /\ out = "cached" => read_lock(new_lock_map, s) # NoLock
    /\ LET locked == read_lock(new_lock_map, s) IN
        CASE out = "cached" ->
                /\ fetch_res' = [fetch_res EXCEPT ![s] = "Ok"]
                /\ UNCHANGED new_lock_map
          [] out = "http" ->
                /\ fetch_res' = [fetch_res EXCEPT ![s] = "HTTP request failed"]
                /\ UNCHANGED new_lock_map
          [] OTHER ->
                IF locked # NoLock
                  THEN /\ fetch_res' = [fetch_res EXCEPT
                                          ![s] = IF locked.sha512 = out
                                                   THEN "Ok"
                                                   ELSE "Checksum mismatch"]
                       /\ UNCHANGED new_lock_map
                  ELSE /\ fetch_res' = [fetch_res EXCEPT ![s] = "Ok"]
                       /\ new_lock_map' =
                             [new_lock_map EXCEPT
                                ![s] = [version |-> ConfigVersion, sha512 |-> out]]
    /\ UNCHANGED <<consVars, prodVars, libVars, assetVars, buildVars, creditVars,
                   sync_pc, lock_disk, lock_map, sync_ret>>

\* join_all has resolved: the results are collected in the order of the
\* config's HashMap, so the error returned is that of whichever failed
\* schema comes first in it; without an error the lockfile is rewritten when
\* the map changed (persisted tells whether writing and renaming the
\* temporary file worked).
SyncFinishWritesOnError(persisted) ==
    /\ sync_pc = "fetching"
    /\ \A s \in Schemas : fetch_res[s] # "none"
    /\ sync_pc' = "returned"
    /\ IF \E s \in Schemas : fetch_res[s] # "Ok"
         THEN /\ \E s \in Schemas : /\ fetch_res[s] # "Ok"
                                    /\ sync_ret' = fetch_res[s]
              /\ lock_disk' = IF persisted THEN new_lock_map ELSE lock_disk
         ELSE IF new_lock_map # lock_map
                THEN IF persisted
                       THEN /\ lock_disk' = new_lock_map
                            /\ sync_ret' = "Ok"
                       ELSE /\ sync_ret' = "Failed to save new lockfile"
                            /\ UNCHANGED lock_disk
                ELSE /\ sync_ret' = "Ok"
                     /\ UNCHANGED lock_disk
    /\ UNCHANGED <<consVars, prodVars, libVars, assetVars, buildVars, creditVars,
                   lock_map, new_lock_map, fetch_res>>

SyncFinish(persisted) ==
    /\ sync_pc = "fetching"
    /\ \A s \in Schemas : fetch_res[s] # "none"
    /\ sync_pc' = "returned"
    /\ IF \E s \in Schemas : fetch_res[s] # "Ok"
         THEN /\ \E s \in Schemas : /\ fetch_res[s] # "Ok"
                                    /\ sync_ret' = fetch_res[s]
              /\ UNCHANGED lock_disk
         ELSE IF new_lock_map # lock_map
                THEN IF persisted
                       THEN /\ lock_disk' = new_lock_map
                            /\ sync_ret' = "Ok"
                       ELSE /\ sync_ret' = "Failed to save new lockfile"
                            /\ UNCHANGED lock_disk
                ELSE /\ sync_ret' = "Ok"
                     /\ UNCHANGED lock_disk
    /\ UNCHANGED <<consVars, prodVars, libVars, assetVars, buildVars, creditVars,
                   lock_map, new_lock_map, fetch_res>>

SyncNext ==
    \/ \E l \in [Schemas -> LockEntries] : SyncStart(l)
    \/ \E s \in Schemas, out \in {"cached", "http", "h1", "h2"} : FetchSchema(s, out)
    \/ \E persisted \in BOOLEAN : SyncFinish(persisted)

\* The build tool runs on its own.
SyncBegin == Init /\ handler_max_times = 0

SyncSpec == SyncBegin /\ [][SyncNext]_vars

\* ==================================================================== claims
\* Predicates on a task's history of handler results, used by the claims.
AllTransient(h) == \A i \in 1..Len(h) : h[i] = "Transient"
TransientThenOk(h) ==
    /\ Len(h) >= 1
    /\ h[Len(h)] = "Ok"
    /\ \A i \in 1..(Len(h) - 1) : h[i] = "Transient"

\* C1: a record whose first handler invocation returned a Permanent error has
\* had exactly one invocation (the handler is never invoked again), its task
\* has terminated, and a process abort is never due to that task: an abort in
\* progress or done comes from the driver or from another task.
C1_PermanentNotRetried ==
    \A r \in Records :
        (Len(hist[r]) >= 1 /\ hist[r][1] = "Permanent") =>
            /\ calls[r] = 1
            /\ hist[r] = <<"Permanent">>
            /\ task_pc[r] = "done"
            /\ aborted = "abort" =>
                  \/ driver = "abort"
                  \/ \E q \in Records \ {r} : task_pc[q] = "grace"

\* C1 witness: a task that ended after one Permanent result, joined by the
\* driver, with the process alive.
C1_Witness ==
    \E r \in Records :
        /\ hist[r] = <<"Permanent">>
        /\ calls[r] = 1
        /\ task_pc[r] = "done"
        /\ r \notin tasks
        /\ driver = "recv"
        /\ aborted = "no"

\* C2 (as claimed): whenever a handler invocation returns Transient, the
\* handler is invoked again before the record is dropped, for every inner
\* backoff policy: a task that has ended has followed each Transient result
\* by another invocation.
C2_Original ==
    \A r \in Records :
        task_pc[r] = "done" =>
            \A i \in 1..Len(hist[r]) :
                hist[r][i] = "Transient" => calls[r] > i

\* C2 (amended): whenever a handler invocation returns Transient while the
\* inner backoff sequence still has a delay left (it is the i-th invocation
\* with i <= max_times), the task takes that delay and invokes the handler
\* again before the record is dropped; so with max_times >= 1 a record whose
\* handler returned Transient is dropped only after at least two invocations.
C2_TransientRetriedWhileDelaysLeft ==
    \A r \in Records :
        /\ \A i \in 1..Len(hist[r]) :
              (hist[r][i] = "Transient" /\ i <= handler_max_times) =>
                  \/ calls[r] > i
                  \/ (i = Len(hist[r]) /\ task_pc[r] = "sleeping")
        /\ ( /\ task_pc[r] = "done"
             /\ handler_max_times >= 1
             /\ \E i \in 1..Len(hist[r]) : hist[r][i] = "Transient" )
              => calls[r] >= 2

\* C2 witness: a record dropped after a Transient first result and a retry.
C2_Witness ==
    \E r \in Records :
        /\ task_pc[r] = "done"
        /\ Len(hist[r]) >= 2
        /\ hist[r][1] = "Transient"
        /\ hist[r][Len(hist[r])] = "Transient"
        /\ calls[r] >= 2

\* C3 (as claimed): between a Fatal handler result and the termination of the
\* process no further record is received and no handler invocation starts:
\* while a task is in the grace delay of abort(), no step spawns a task or
\* invokes the handler.
C3_NoProcessingAfterFatal ==
    [][(\E r \in Records : task_pc[r] = "grace") =>
           (spawned' = spawned /\ calls' = calls)]_vars

\* C4 (as claimed): a receive error of severity Fatal terminates the process
\* after one grace delay whatever the outer backoff sequence has left: a step
\* in which the stream yields a Fatal error takes the driver into an abort
\* grace delay.
C4_FatalRecvErrorAborts ==
    [][RecvErr("Fatal") => driver' \in {"abort", "abort_internal"}]_vars

\* C5: as long as the handler of a record has returned only Transient errors,
\* k of them with k <= max_times, the task is in the k-th inner delay or in
\* invocation k+1; and once the handler has succeeded after k Transient
\* errors, exactly k+1 invocations have occurred, k <= max_times, and the
\* task has terminated without starting an abort.
C5_TransientThenSuccess ==
    \A r \in Records :
        LET h == hist[r] IN
        /\ (Len(h) >= 1 /\ Len(h) <= handler_max_times /\ AllTransient(h)) =>
              \/ (task_pc[r] = "sleeping" /\ calls[r] = Len(h))
              \/ (task_pc[r] \in {"running", "panicked"} /\ calls[r] = Len(h) + 1)
        /\ TransientThenOk(h) =>
              /\ calls[r] = Len(h)
              /\ Len(h) - 1 <= handler_max_times
              /\ task_backoff[r] = Len(h) - 1
              /\ task_pc[r] = "done"

\* C5 witness: two Transient errors, then success on the third invocation,
\* the process alive.
C5_Witness ==
    \E r \in Records :
        /\ hist[r] = <<"Transient", "Transient", "Ok">>
        /\ calls[r] = 3
        /\ task_pc[r] = "done"
        /\ aborted = "no"

\* C6: a task whose handler has returned Transient on every invocation has
\* made at most max_times + 1 invocations; it has terminated exactly when it
\* has made max_times + 1 of them, with the inner sequence exhausted, and it
\* never starts an abort.
C6_GiveUpWhenExhausted ==
    \A r \in Records :
        LET h == hist[r] IN
        (Len(h) >= 1 /\ AllTransient(h)) =>
            /\ calls[r] <= handler_max_times + 1
            /\ task_pc[r] \in {"sleeping", "running", "done", "panicked"}
            /\ task_pc[r] = "done" <=> Len(h) = handler_max_times + 1
            /\ task_pc[r] = "done" =>
                  /\ calls[r] = handler_max_times + 1
                  /\ task_backoff[r] = handler_max_times

\* C6 witness: with max_times = 2, a task that gave up after three Transient
\* results, the process alive.
C6_Witness ==
    \E r \in Records :
        /\ handler_max_times = 2
        /\ hist[r] = <<"Transient", "Transient", "Transient">>
        /\ calls[r] = 3
        /\ task_pc[r] = "done"
        /\ aborted = "no"

\* C7: whenever no stream-level failure (receive error, stream end) has
\* occurred since the last successfully decoded record, or since the start
\* when none has been decoded, the outer backoff sequence is in its initial
\* state.
C7_DecodeResetsOuterBackoff ==
    fails = 0 => backoff = 0

\* C7 witness: record 1 was decoded, the stream hung up and was reopened
\* (task 1 still runs, detached), then record 2 was decoded and reset the
\* outer sequence.
C7_Witness ==
    /\ spawned = 2
    /\ task_pc[1] = "running"
    /\ 1 \notin tasks
    /\ 2 \in tasks
    /\ fails = 0
    /\ backoff = 0
    /\ driver = "recv"

\* C8: a receive error that is at most the 5th consecutive stream-level
\* failure puts the driver into one outer-backoff sleep, from which it goes
\* back to receiving without having received anything in between; the
\* too-many-errors abort is entered only by the 6th consecutive stream-level
\* failure since the last successful decode.
C8_OuterBackoffThenAbort ==
    /\ [](driver = "sleep_err" => (fails \in 1..5 /\ backoff = fails))
    /\ [](driver = "abort_internal" => fails = 6)
    /\ [](aborted = "abort_internal" => fails = 6)
    /\ [][ /\ (driver = "recv" /\ stream' = "open" /\ fails' = fails + 1) =>
                 IF fails < 5 THEN driver' = "sleep_err" /\ fails' = fails + 1
                              ELSE driver' = "abort_internal" /\ fails' = 6
           /\ (driver = "sleep_err" /\ driver' # "sleep_err") =>
                 (driver' = "recv" /\ spawned' = spawned /\ fails' = fails)
         ]_vars

\* C8 witness: the process aborted on a receive error (the stream had not
\* ended) that was the 6th consecutive stream-level failure, after a record
\* had been decoded.
C8_Witness ==
    /\ aborted = "abort_internal"
    /\ stream = "open"
    /\ fails = 6
    /\ spawned >= 1

\* C9: consume is never in a state where it has returned to its caller: the
\* driver is connecting, receiving, in an outer-backoff sleep or in a grace
\* delay, until the process is aborted.
C9_NeverReturns ==
    driver \in {"connecting", "recv", "sleep_err", "sleep_hup", "abort",
                "abort_internal"}

\* C9 witness: the stream has ended for the fifth time in a row and the
\* driver is still in the loop, sleeping before the next reconnect.
C9_Witness ==
    /\ driver = "sleep_hup"
    /\ stream = "ended"
    /\ backoff = 5
    /\ aborted = "no"

\* C10: when the stream ends the driver leaves the receive loop: it takes one
\* delay from the outer sequence and sleeps, or enters the too-many-errors
\* abort when the sequence is exhausted (5 delays taken); from the sleep it
\* goes on only by opening a fresh stream with an empty task set, without
\* taking another delay; an ended stream is never received from.
C10_StreamEndReconnects ==
    /\ [](stream = "ended" => driver \in {"sleep_hup", "abort_internal"})
    /\ [][ /\ (stream = "open" /\ stream' = "ended") =>
                 IF backoff < 5
                   THEN driver' = "sleep_hup" /\ backoff' = backoff + 1
                   ELSE driver' = "abort_internal" /\ backoff' = backoff
           /\ (driver = "sleep_hup" /\ driver' # "sleep_hup") =>
                 /\ driver' = "recv"
                 /\ stream' = "open"
                 /\ tasks' = {}
                 /\ backoff' = backoff
         ]_vars

\* C10 witness: after a hang-up and one delay the driver is receiving from a
\* reopened stream; task 1, spawned from the previous stream, still runs.
C10_Witness ==
    /\ driver = "recv"
    /\ stream = "open"
    /\ backoff = 1
    /\ fails = 1
    /\ tasks = {}
    /\ task_pc[1] = "running"

\* C11 (as claimed): a handler task that failed internally (panic, join
\* error) always leads to the termination of the process: whenever a task has
\* panicked, its JoinHandle is still in the driver's task set (the driver will
\* see the join error), or an abort is in progress or done.
C11_TaskPanicAborts ==
    \A r \in Records :
        task_pc[r] = "panicked" =>
            \/ r \in tasks
            \/ driver \in {"abort", "abort_internal"}
            \/ aborted # "no"

\* C12: the driver never cancels a spawned task.  A task that is in flight
\* (spawned, not yet terminated) can always take its next step while the
\* process is alive, whatever the driver is doing; no step of the driver
\* changes the state of a task in flight; and a task has terminated normally
\* only after handler success, a Permanent error, or a Transient error with
\* the inner sequence exhausted.
C12_TaskNeverCancelled ==
    /\ [](\A r \in Records :
            /\ (aborted = "no" /\ task_pc[r] = "ready") => ENABLED Invoke(r)
            /\ (aborted = "no" /\ task_pc[r] = "sleeping") => ENABLED Retry(r)
            /\ (aborted = "no" /\ task_pc[r] = "running") =>
                   ENABLED HandlerReturn(r, "Ok")
            /\ task_pc[r] = "done" =>
                  /\ Len(hist[r]) >= 1
                  /\ LET last == hist[r][Len(hist[r])] IN
                       \/ last \in {"Ok", "Permanent"}
                       \/ (last = "Transient" /\ task_backoff[r] = handler_max_times))
    /\ [][\A r \in Records :
            task_pc[r] \in {"ready", "running", "sleeping"} =>
                \/ /\ task_pc'[r] = task_pc[r]
                   /\ calls'[r] = calls[r]
                   /\ hist'[r] = hist[r]
                   /\ task_backoff'[r] = task_backoff[r]
                \/ /\ driverVars' = driverVars
                   /\ aborted' = aborted
         ]_vars

\* C12 witness: task 1 was spawned from a stream that has since ended; after
\* the reconnect and a receive error the driver is in an outer-backoff sleep
\* and task 1 is in its second inner retry delay.
C12_Witness ==
    /\ driver = "sleep_err"
    /\ stream = "open"
    /\ spawned = 1
    /\ tasks = {}
    /\ task_pc[1] = "sleeping"
    /\ calls[1] = 2
    /\ backoff = 2
    /\ aborted = "no"

\* C13: in-flight handler tasks never block the reception of a record: when
\* the driver is at the select and the stream has a decodable record ready,
\* the record can be received and its task spawned, whatever tasks are in
\* flight; the step leaves every other task as it is.
C13_SpawnNeverBlocked ==
    /\ []((driver = "recv" /\ aborted = "no" /\ spawned < MaxRecords) =>
             ENABLED RecvOk)
    /\ [][spawned' # spawned =>
             /\ spawned' = spawned + 1
             /\ task_pc'[spawned'] = "ready"
             /\ spawned' \in tasks'
             /\ \A r \in 1..spawned :
                   /\ task_pc'[r] = task_pc[r]
                   /\ calls'[r] = calls[r]
                   /\ (r \in tasks => r \in tasks')
         ]_vars

\* C13 witness: the handler of record 2 was started while the task of record
\* 1, still joined to the driver, is in a retry delay.
C13_Witness ==
    /\ driver = "recv"
    /\ tasks = {1, 2}
    /\ task_pc[1] = "sleeping"
    /\ task_pc[2] = "running"
    /\ calls[2] = 1
    /\ aborted = "no"

\* Number of Transient results in a task's history.
NumTransient(h) == Cardinality({i \in 1..Len(h) : h[i] = "Transient"})

\* C14: every task has an inner backoff sequence of its own, fresh when the
\* task is spawned: the number of delays a task has taken is determined by
\* its own history of results (one per Transient result, up to max_times); a
\* step that takes a delay from one task's sequence leaves the sequences of
\* the other tasks and the outer sequence unchanged, and a step that changes
\* the outer sequence leaves the sequences of the tasks in flight unchanged.
C14_OwnInnerBackoff ==
    /\ [](\A r \in Records :
            /\ task_backoff[r] =
                  IF NumTransient(hist[r]) < handler_max_times
                    THEN NumTransient(hist[r]) ELSE handler_max_times
            /\ task_pc[r] = "ready" => task_backoff[r] = 0)
    /\ [][ /\ \A r \in Records :
                task_backoff'[r] # task_backoff[r] =>
                    /\ task_backoff'[r] = task_backoff[r] + 1
                    /\ backoff' = backoff
                    /\ \A q \in Records \ {r} : task_backoff'[q] = task_backoff[q]
           /\ backoff' # backoff =>
                \A r \in Records :
                    task_pc[r] # "none" => task_backoff'[r] = task_backoff[r]
         ]_vars

\* C14 witness: task 1 has used up its inner sequence, the outer sequence has
\* handed out a delay, and task 2 runs its first invocation with its own
\* sequence untouched.
C14_Witness ==
    /\ handler_max_times = 2
    /\ task_backoff[1] = 2
    /\ task_pc[1] = "done"
    /\ task_backoff[2] = 0
    /\ task_pc[2] = "running"
    /\ backoff = 1

\* C15: among sends whose clock readings are within 5 minutes of each other,
\* at most one claims the refresh; a send that reaches the refresh gate while
\* the timestamp is stale for its reading (more than 5 minutes older) claims
\* it, storing its reading; and only a send that claimed the refresh performs
\* a metadata query.  So of N concurrent sends with one stale reading, the
\* first at the gate queries the metadata and the other N-1 do not.
C15_OneRefreshWinner ==
    /\ [](\A s, q \in Sends :
            (s # q /\ claimed[s] /\ claimed[q]) =>
                \/ now[s] - now[q] > INTERVAL
                \/ now[q] - now[s] > INTERVAL)
    /\ [](\A s \in Sends :
            (send_pc[s] = "fetch" \/ fetched[s] # "none") => claimed[s])
    /\ [][\A s \in Sends :
            ( /\ send_pc[s] = "gate"
              /\ send_pc'[s] # "gate"
              /\ last_partition_check < now[s] - INTERVAL ) =>
                /\ claimed'[s]
                /\ send_pc'[s] = "fetch"
                /\ last_partition_check' = now[s]
         ]_vars

\* C15 witness: two sends with the same clock reading; one has claimed the
\* refresh and is still in the metadata query, the other has passed the gate
\* without claiming and is already at the broker write.
C15_Witness ==
    \E s, q \in Sends :
        /\ s # q
        /\ now[s] = now[q]
        /\ claimed[s]
        /\ send_pc[s] = "fetch"
        /\ ~claimed[q]
        /\ fetched[q] = "none"
        /\ send_pc[q] = "write"

\* C16: a send that reaches the refresh gate while the timestamp is not more
\* than 5 minutes older than its clock reading (exactly 5 minutes included)
\* does not claim the refresh and leaves the timestamp and the cached count
\* as they are; the two cells are only ever changed by a send that claimed
\* the refresh.
C16_RecentNoRefresh ==
    [][ /\ \A s \in Sends :
              ( /\ send_pc[s] = "gate"
                /\ send_pc'[s] # "gate"
                /\ last_partition_check >= now[s] - INTERVAL ) =>
                  /\ ~claimed'[s]
                  /\ send_pc'[s] = "load"
                  /\ last_partition_check' = last_partition_check
                  /\ partition_count' = partition_count
        /\ ( \/ partition_count' # partition_count
             \/ last_partition_check' # last_partition_check ) =>
              \E s \in Sends :
                  /\ claimed'[s]
                  /\ send_pc[s] \in {"gate", "fetch"}
                  /\ send_pc'[s] # send_pc[s]
      ]_vars

\* C16 witness: the timestamp is 0 and a send with the reading 300 (exactly
\* 5 minutes later) has returned Ok without claiming the refresh.
C16_Witness ==
    \E s \in Sends :
        /\ last_partition_check = 0
        /\ now[s] = 300
        /\ ~claimed[s]
        /\ fetched[s] = "none"
        /\ result[s] = "Ok"

\* C17 (as claimed): at every moment at most one send is inside the refresh
\* section (it has claimed the refresh and its metadata query has not yet
\* returned).
C17_OneRefreshAtATime ==
    Cardinality({s \in Sends : send_pc[s] = "fetch"}) <= 1

\* C18 (as claimed): a send whose metadata query failed is never failed by
\* it: it goes on to the broker write with the cached count, and what it
\* returns is the outcome of that write.
C18_FetchFailureNeverFailsSend ==
    \A s \in Sends :
        fetched[s] = "err" =>
            /\ send_pc[s] \in {"load", "pick", "write", "done"}
            /\ send_pc[s] = "done" => result[s] \in {"Ok", "Err"}

\* C19: every send that reaches the broker write has obtained a partition
\* count of at least 1 and hands over an index p with 0 <= p < that count;
\* the count is the one its metadata query stored if the query succeeded, and
\* the cached count it loaded otherwise.
C19_PartitionInRange ==
    /\ [](\A s \in Sends :
            send_pc[s] \in {"write", "done"} =>
                /\ parts[s] >= 1
                /\ 0 <= part[s]
                /\ part[s] < parts[s])
    /\ [][\A s \in Sends :
            (send_pc'[s] = "pick" /\ send_pc[s] # "pick") =>
                IF send_pc[s] = "fetch"
                  THEN fetched'[s] = "ok" /\ parts'[s] = partition_count'
                  ELSE fetched'[s] # "ok" /\ parts'[s] = partition_count
         ]_vars

\* C19 witness: a send that fetched a count of 2, chose partition 1 and was
\* acknowledged.
C19_Witness ==
    \E s \in Sends :
        /\ fetched[s] = "ok"
        /\ parts[s] = 2
        /\ part[s] = 1
        /\ result[s] = "Ok"

\* C20: on a freshly built Producer the first send to reach the refresh gate
\* claims the refresh, whatever its clock reading; and as long as no send has
\* a reading more than 5 minutes after the reading of that first send,
\* exactly one send has claimed the refresh (one metadata query in total).
C20_FirstSendRefreshesOnce ==
    /\ [](LET P == {s \in Sends : send_pc[s] \notin {"idle", "gate"}}
              W == {s \in Sends : claimed[s]}
          IN  P # {} =>
                /\ W # {}
                /\ \A f \in W :
                      ( /\ \A w \in W : now[f] <= now[w]
                        /\ \A s \in P : now[s] <= now[f] + INTERVAL ) =>
                          W = {f})
    /\ [][\A s \in Sends :
            ( /\ send_pc[s] = "gate"
              /\ send_pc'[s] # "gate"
              /\ \A q \in Sends : send_pc[q] \in {"idle", "gate"} ) =>
                  claimed'[s] /\ last_partition_check' = now[s]
         ]_vars

\* C20 witness: the first send (reading 301) fetched the metadata and
\* returned; a later send whose clock reads 300 returned without a query.
C20_Witness ==
    \E f, s \in Sends :
        /\ f # s
        /\ now[f] = 301
        /\ fetched[f] = "ok"
        /\ send_pc[f] = "done"
        /\ now[s] = 300
        /\ ~claimed[s]
        /\ send_pc[s] = "done"
        /\ last_partition_check = 301

\* C21 (as claimed): every call of Producer::send that has ended, whatever
\* its outcome, has made exactly one broker write attempt, and it returned
\* what that write returned.
C21_ExactlyOneWrite ==
    \A s \in Sends :
        /\ writes[s] <= 1
        /\ send_pc[s] \in {"done", "panicked"} =>
              /\ writes[s] = 1
              /\ result[s] \in {"Ok", "Err"}

\* C22 (as claimed): decoding a record whose topic is not in the declared
\* subscription list yields RecvError::BadTopic, whatever its key and payload
\* are, absent ones included.
C22_Original ==
    (call = "from_message" /\ msg.topic \notin REQUESTED_TOPICS) =>
        decoded = "BadTopic"

\* C22 (amended): decoding a record whose topic is not in the declared
\* subscription list never yields a decoded event; it yields BadTopic when
\* the record has a key and a payload, MissingKey when the key is absent, and
\* MissingPayload when the key is present and the payload is absent.
C22_BadTopicNeverDecodes ==
    (call = "from_message" /\ msg.topic \notin REQUESTED_TOPICS) =>
        /\ decoded # "Ok"
        /\ decoded = IF msg.key = "absent" THEN "MissingKey"
                     ELSE IF msg.payload = "absent" THEN "MissingPayload"
                     ELSE "BadTopic"

\* C22 witness: a record on the topic foo with a malformed key and a valid
\* payload was rejected with BadTopic.
C22_Witness ==
    /\ call = "from_message"
    /\ msg = [topic |-> "foo", key |-> "malformed", payload |-> "valid"]
    /\ decoded = "BadTopic"

\* The severity the documentation of broker errors gives: Transient with a
\* protocol error code; without one, Transient for no message received,
\* partition EOF and a retriable transaction error, Fatal for an embedded
\* NUL, Permanent otherwise.
ExpectedBrokerSeverity(e) ==
    IF e.code \in Codes THEN "Transient"
    ELSE IF e.variant = "NoMessageReceived" THEN "Transient"
    ELSE IF e.variant = "PartitionEOF" THEN "Transient"
    ELSE IF e.variant = "Transaction" /\ e.retriable = TRUE THEN "Transient"
    ELSE IF e.variant = "Nul" THEN "Fatal"
    ELSE "Permanent"

\* C23 (as claimed): RecvError::Kafka has severity Transient for every
\* transport error it wraps.
C23_Original ==
    (call = "severity" /\ err.ty = "RecvError" /\ err.variant = "Kafka") =>
        classified = "Transient"

\* C23 (amended): RecvError::Kafka has the severity of the transport error
\* it wraps: Transient when that error carries a protocol error code or is
\* no-message-received, partition-EOF or a retriable transaction error, Fatal
\* when it is the embedded-NUL error, Permanent for every other.
C23_KafkaDelegates ==
    (call = "severity" /\ err.ty = "RecvError" /\ err.variant = "Kafka") =>
        classified = ExpectedBrokerSeverity(err.inner)

\* C23 witness: RecvError::Kafka(KafkaError::Nul) was classified Fatal.
C23_Witness ==
    /\ call = "severity"
    /\ err.ty = "RecvError"
    /\ err.variant = "Kafka"
    /\ err.inner.variant = "Nul"
    /\ classified = "Fatal"

\* C24: RecvError::Protobuf, BadTopic, MissingKey and MissingPayload all have
\* severity Permanent.
C24_DecodeErrorsPermanent ==
    (/\ call = "severity"
     /\ err.ty = "RecvError"
     /\ err.variant \in {"Protobuf", "BadTopic", "MissingKey",
                         "MissingPayload"}) =>
        classified = "Permanent"

\* C24 witness: RecvError::BadTopic was classified Permanent.
C24_Witness ==
    /\ call = "severity"
    /\ err.ty = "RecvError"
    /\ err.variant = "BadTopic"
    /\ classified = "Permanent"

\* The error at the end of the chain of deferred-to causes of a derived
\* error.
RECURSIVE Innermost(_)
Innermost(e) ==
    IF /\ e.ty \in {"SendError", "RecvError", "DeductionErrorKind",
                    "DeductionError"}
       /\ e.inner.ty # "none"
      THEN Innermost(e.inner)
      ELSE e

\* C25: SendError(e), DeductionErrorKind::Send(s) and DeductionError{kind}
\* have the severity of the error they wrap, and so the severity of the
\* innermost cause of the chain, whatever that severity is.
C25_DelegatesToInnermost ==
    (/\ call = "severity"
     /\ \/ err.ty \in {"SendError", "DeductionError"}
        \/ err.ty = "DeductionErrorKind" /\ err.variant = "Send") =>
        /\ classified = severity(err.inner)
        /\ Innermost(err).ty = "KafkaError" =>
              classified = ExpectedBrokerSeverity(Innermost(err))
        /\ Innermost(err).ty # "KafkaError" => classified = "Permanent"

\* C25 witness: a DeductionError whose kind is Send(SendError(Nul)) was
\* classified Fatal.
C25_Witness ==
    /\ call = "severity"
    /\ err.ty = "DeductionError"
    /\ err.inner.variant = "Send"
    /\ err.inner.inner.inner.variant = "Nul"
    /\ classified = "Fatal"

\* The error inside all the boxes around it.
RECURSIVE Unbox(_)
Unbox(e) == IF e.ty \in BoxForms THEN Unbox(e.inner) ELSE e

\* C26: a boxed error, in each of the three box forms and through nested
\* boxes, has the severity of the error inside the boxes.
C26_BoxKeepsSeverity ==
    (call = "severity" /\ err.ty \in BoxForms) =>
        /\ classified = severity(Unbox(err))
        /\ Unbox(err).ty = "KafkaError" =>
              classified = ExpectedBrokerSeverity(Unbox(err))

\* C26 witness: a Box<dyn Triage> around a Box<T> around KafkaError::Nul was
\* classified Fatal.
C26_Witness ==
    /\ call = "severity"
    /\ err.ty = "Box<dyn Triage>"
    /\ err.inner.ty = "Box<T>"
    /\ err.inner.inner.ty = "KafkaError"
    /\ err.inner.inner.variant = "Nul"
    /\ classified = "Fatal"

\* Positions of the severity attributes of a definition, and of its fields
\* marked source or from.
SevPositions(d) ==
    {k \in 1..Len(d.attrs) : d.attrs[k] \in {"transient", "permanent", "fatal"}}
MarkedPositions(d) ==
    {k \in 1..Len(d.fields) : d.fields[k] \cap {"source", "from"} # {}}

\* The last element of a non-empty set of positions.
Last(S) == CHOOSE k \in S : \A j \in S : j <= k

\* C27 (as claimed): a definition with both a severity attribute and a field
\* marked as cause gets a build-time diagnostic.
C27_Original ==
    (call = "derive" /\ SevPositions(def) # {} /\ MarkedPositions(def) # {}) =>
        derived.diag # <<>>

\* C27 (amended): a definition with both a severity attribute and a field
\* marked as cause is accepted: the generated severity is the explicit one
\* (the last severity attribute), the marked field is not consulted, and with
\* one severity attribute and one marked field no diagnostic is emitted.
C27_ExplicitWinsSilently ==
    (call = "derive" /\ SevPositions(def) # {} /\ MarkedPositions(def) # {}) =>
        /\ derived.severity = SeverityAttr(def.attrs[Last(SevPositions(def))])
        /\ derived.field = None
        /\ (/\ Cardinality(SevPositions(def)) = 1
            /\ Cardinality(MarkedPositions(def)) = 1) => derived.diag = <<>>

\* C27 witness: #[transient] on a variant with one #[source] field derived
\* Severity::Transient with no diagnostic.
C27_Witness ==
    /\ call = "derive"
    /\ def = [attrs |-> <<"transient">>, fields |-> <<{"source"}>>]
    /\ derived = [severity |-> "Transient", field |-> None, diag |-> <<>>]

\* C28: a definition with two or more severity attributes, or two or more
\* fields marked as cause, always gets a diagnostic: one for every severity
\* attribute after the first and one for every marked field after the first.
C28_DuplicatesDiagnosed ==
    call = "derive" =>
        /\ (\/ Cardinality(SevPositions(def)) >= 2
            \/ Cardinality(MarkedPositions(def)) >= 2) => derived.diag # <<>>
        /\ Len(derived.diag) =
              (IF SevPositions(def) = {} THEN 0
                 ELSE Cardinality(SevPositions(def)) - 1)
              + (IF MarkedPositions(def) = {} THEN 0
                   ELSE Cardinality(MarkedPositions(def)) - 1)

\* C28 witness: #[transient] #[fatal] on a variant got the diagnostic
\* "Duplicate severity attribute".
C28_Witness ==
    /\ call = "derive"
    /\ def.attrs = <<"transient", "fatal">>
    /\ def.fields = <<>>
    /\ derived.diag = <<"Duplicate severity attribute">>

\* C29: a broker error has the severity of its protocol error code when it
\* has one; otherwise Transient for no message received, partition EOF and
\* retriable transaction errors, Fatal for the embedded-NUL error, Permanent
\* for every other.
C29_BrokerSeverity ==
    (call = "severity" /\ err.ty = "KafkaError") =>
        classified = ExpectedBrokerSeverity(err)

\* C29 witness: a non-retriable transaction error that carries a protocol
\* error code was classified by its code, Transient.
C29_Witness ==
    /\ call = "severity"
    /\ err.ty = "KafkaError"
    /\ err.variant = "Transaction"
    /\ err.code \in Codes
    /\ err.retriable = FALSE
    /\ classified = "Transient"

C33_ErrorRecordDropped ==
    [][ /\ (driver = "recv" /\ fails' = fails + 1 /\ stream' = stream) =>
              /\ spawned' = spawned
              /\ tasks' = tasks
              /\ task_pc' = task_pc
              /\ calls' = calls
              /\ driver' = IF backoff < 5 THEN "sleep_err" ELSE "abort_internal"
        /\ (driver = "sleep_err" /\ driver' # driver) =>
              /\ driver' = "recv"
              /\ stream = "open"
              /\ stream' = "open"
              /\ spawned' = spawned
              /\ tasks' = tasks
              /\ calls' = calls
      ]_vars

\* C33 witness: the first item of the stream was an error; the driver is in
\* the outer delay and no task exists.
C33_Witness ==
    /\ driver = "sleep_err"
    /\ stream = "open"
    /\ fails = 1
    /\ spawned = 0
    /\ tasks = {}
    /\ \A r \in Records : task_pc[r] = "none" /\ calls[r] = 0

\* C34: the outer sequence counts the stream-level failures (hang-ups and
\* receive errors alike) since the last successful decode, across reconnects:
\* only a successful decode takes it back, and the 6th consecutive failure
\* enters the too-many-errors abort.
C34_FailuresAccumulate ==
    /\ [](backoff = IF fails < 5 THEN fails ELSE 5)
    /\ [](fails <= 6)
    /\ [](fails = 6 <=> driver = "abort_internal")
    /\ [][backoff' < backoff => (spawned' = spawned + 1 /\ backoff' = 0)]_vars

\* C34 witness: after record 1 was decoded the stream hung up at least once
\* (task 1 still runs but is no longer in the task set) and the 6th failure,
\* a receive error on an open stream, entered the abort.
C34_Witness ==
    /\ driver = "abort_internal"
    /\ stream = "open"
    /\ fails = 6
    /\ spawned = 1
    /\ tasks = {}
    /\ task_pc[1] = "running"

\* C35: in a handler task the number of inner delays taken is the number of
\* invocations started minus one while an invocation runs and after the task
\* has ended, and equals the number of invocations during a delay: one delay
\* between two consecutive invocations, none before the first, none after
\* the last.
C35_OneDelayBetweenInvocations ==
    \A r \in Records :
        /\ task_pc[r] \in {"none", "ready"} =>
              (calls[r] = 0 /\ task_backoff[r] = 0)
        /\ task_pc[r] \in {"running", "done", "grace", "panicked"} =>
              (calls[r] >= 1 /\ task_backoff[r] = calls[r] - 1)
        /\ task_pc[r] = "sleeping" =>
              (calls[r] >= 1 /\ task_backoff[r] = calls[r])

\* C35 witness: task 1 ended after three invocations and two delays.
C35_Witness ==
    /\ task_pc[1] = "done"
    /\ calls[1] = 3
    /\ task_backoff[1] = 2
    /\ Len(hist[1]) = 3

\* C36 (as claimed): the cached partition count is at least 1 in every
\* reachable state, and every send draws its partition from a non-empty
\* range.
C36_CountAtLeastOne ==
    /\ partition_count >= 1
    /\ \A s \in Sends : send_pc[s] = "pick" => parts[s] >= 1

\* C37: a failed metadata fetch leaves the timestamp its send advanced, and
\* the cached count, as they are, and the send goes on with the cached
\* count; any other send that claimed a refresh read a clock more than 5
\* minutes away from the reading of the send whose fetch failed, and a send
\* that claimed nothing takes the cached count.
C37_FailedFetchKeepsTimestamp ==
    /\ [](\A s \in Sends :
            /\ send_pc[s] = "fetch" =>
                  (claimed[s] /\ last_partition_check >= now[s])
            /\ fetched[s] = "err" =>
                  /\ claimed[s]
                  /\ last_partition_check >= now[s]
                  /\ \A q \in Sends \ {s} :
                        claimed[q] =>
                           \/ now[q] > now[s] + 300
                           \/ now[q] < now[s] - 300)
    /\ [][\A s \in Sends :
            /\ (fetched[s] = "none" /\ fetched'[s] = "err") =>
                  /\ last_partition_check' = last_partition_check
                  /\ partition_count' = partition_count
                  /\ send_pc'[s] = "load"
            /\ (send_pc[s] = "load" /\ send_pc'[s] # "load") =>
                  (send_pc'[s] = "pick" /\ parts'[s] = partition_count)
         ]_vars

\* C37 witness: send 1 claimed the refresh at reading 0 and its fetch
\* failed; send 2, reading 300, claimed nothing and was written with the
\* count cached before (1).
C37_Witness ==
    /\ fetched[1] = "err"
    /\ now[1] = 0
    /\ last_partition_check = 0
    /\ now[2] = 300
    /\ ~claimed[2]
    /\ parts[2] = 1
    /\ partition_count = 1
    /\ send_pc[2] = "done"

\* C38: every change of the last-refresh timestamp replaces a value t by a
\* clock reading greater than t + 300, so the timestamp never decreases,
\* whatever order the clock readings of the sends come in.
C38_TimestampOnlyAdvances ==
    [][last_partition_check' # last_partition_check =>
          /\ last_partition_check' > last_partition_check + 300
          /\ \E s \in Sends : /\ last_partition_check' = now[s]
                              /\ ~claimed[s]
                              /\ claimed'[s]
      ]_vars

\* C38 witness: the timestamp is 301 after a send whose clock read 0 passed
\* the gate later than the send that read 301: the clock went backwards and
\* the timestamp did not.
C38_Witness ==
    /\ last_partition_check = 301
    /\ claimed[1]
    /\ now[1] = 301
    /\ now[2] = 0
    /\ ~claimed[2]
    /\ send_pc[2] = "load"

\* C40 (as claimed): proxy_ipfs_image leaves the configured CDN base URL as
\* it is, and what a call returns for (url, size) is what the first call on
\* a fresh AssetProxy returns for it, whatever calls were made before.
C40_BaseUnchanged ==
    /\ assets_cdn = CdnBase
    /\ proxy_calls >= 1 =>
          proxy_ret = proxy_ipfs_image(CdnBase, proxy_arg.url, proxy_arg.size).ret

\* C31 (as claimed): a build returns a Producer only when the topic was
\* created or already existed and both clients were constructed; it returns
\* an error when topic creation failed otherwise, at the request level or
\* for the topic, or when a client could not be constructed.
C31_BuildFailsUnlessTopicUsable ==
    \A b \in Builds :
        new_pc[b] = "returned" =>
            /\ new_ret[b] # "none"
            /\ new_ret[b] = "Ok" =>
                  new_topic[b] \in {"Created", "TopicAlreadyExists"}

\* C32 (as claimed): a call of submit_pending_deduction whose available
\* balance is lower than the cost of its (item, blockchain) pair sends no
\* event to the broker and returns Ok(None).
C32_InsufficientBalanceOkNone ==
    \A d \in Deductions :
        (/\ ded_pc[d] = "returned"
         /\ get_cost(<<ded_arg[d].item, ded_arg[d].blockchain>>) # None
         /\ ded_arg[d].balance
               < get_cost(<<ded_arg[d].item, ded_arg[d].blockchain>>)) =>
            /\ ded_sent[d] = 0
            /\ ded_ret[d] = "Ok(None)"

\* C39 (as claimed): when a downloaded schema met a lock entry of its
\* subject and version with another SHA-512, sync_schemas returns the
\* checksum-mismatch error and the lockfile on disk is as it was read.
C39_Original ==
    (/\ sync_pc = "returned"
     /\ \E s \in Schemas : fetch_res[s] = "Checksum mismatch") =>
        /\ sync_ret = "Checksum mismatch"
        /\ lock_disk = lock_map

\* C39 (amended): when a downloaded schema met a lock entry of its subject
\* and version with another SHA-512, sync_schemas fails and the lockfile on
\* disk is as it was read, even if other schemas of the run added lock
\* entries; the error returned is the checksum mismatch unless another
\* schema of the run failed as well, and then it is the error of one of the
\* failed schemas.
C39_MismatchFailsLockUntouched ==
    (/\ sync_pc = "returned"
     /\ \E s \in Schemas : fetch_res[s] = "Checksum mismatch") =>
        /\ sync_ret \in {fetch_res[s] : s \in Schemas} \ {"Ok"}
        /\ (\A s \in Schemas : fetch_res[s] \in {"Ok", "Checksum mismatch"}) =>
              sync_ret = "Checksum mismatch"
        /\ lock_disk = lock_map

\* C39 witness: schema 1 failed its checksum, schema 2 was downloaded and
\* added a lock entry to the map; the run returned the mismatch and the
\* lockfile still has no entry for schema 2.
C39_Witness ==
    /\ sync_pc = "returned"
    /\ fetch_res[1] = "Checksum mismatch"
    /\ fetch_res[2] = "Ok"
    /\ lock_map[2] = NoLock
    /\ new_lock_map[2] # NoLock
    /\ sync_ret = "Checksum mismatch"
    /\ lock_disk = lock_map

====
